---- MODULE Spec2Model ----
(***************************************************************************)
(* A model of fish-lang's execution engine (src/src/interpreter.rs) with   *)
(* the Number type (src/src/number.rs) and the Value/Instruction trees of  *)
(* src/src/parser.rs.                                                      *)
(*                                                                         *)
(* Conventions.                                                            *)
(*  - A Rust Vec is a TLA+ sequence: Rust index i is TLA+ index i + 1.     *)
(*    VM.stack[0] is therefore stack[1] here.                              *)
(*  - A Rust String that is program data is a sequence of one-character    *)
(*    strings (<<"h","i">>); variable names, being only map keys, are      *)
(*    TLA+ strings.                                                        *)
(*  - Option<T> is a sequence of length 0 (None) or 1 (Some).              *)
(*  - An f64 is an exact rational num/den in lowest terms with den > 0;    *)
(*    den = 0 encodes the non-finite values (num 1: inf, -1: -inf, 0: NaN).*)
(*    Rounding and the sign of zero are not modelled; the literals used    *)
(*    here are small dyadic rationals, on which f64 arithmetic is exact.   *)
(*  - An i64 is an integer of i64_MIN..i64_MAX, the 64-bit two's-complement *)
(*    range scaled down.  `+ - *` that leave the range panic or wrap as     *)
(*    the build has it (overflow_checks); `/` and `%` that leave it         *)
(*    (i64_MIN by -1) panic in every build.                                 *)
(*  - Every enum value is a record with one fixed set of fields, the       *)
(*    unused ones holding a default.                                       *)
(***************************************************************************)
EXTENDS Integers, Sequences, FiniteSets, TLC

VARIABLES
  prog,    \* which program interpret is handed: Program is its Vec<Instruction>
  stack,   \* VM.stack: Vec<StackFrame>
  calls,   \* the active calls of VM::execute_new_instructions / StackFrame::run
  out,     \* the lines written to standard output by println!
  status,  \* where interpret is: "new", "running", "unwinding", "returned", "aborted"
  error,   \* the InterpreterError in flight or returned (NoError when none)
  input_tokens,  \* the Vec<Token> handed to parse
  parsed,        \* what parse returned: <<>> before the call, <<result>> after it
  input_value,   \* the Value handed to evaluate_value on its own: <<>> or <<value>>
  evaluated,     \* the Data that evaluation returned: <<>> before the call, <<data>> after
  overflow_checks, \* the build: TRUE when i64 `+ - *` panic on overflow (the dev
                   \* profile), FALSE when they wrap (the release profile)
  input_text,    \* the `input: &str` handed to tokenize, as its sequence of chars
  tokenized      \* what tokenize returned: <<>> before the call, <<result>> after it

vars == <<prog, stack, calls, out, status, error,
         input_tokens, parsed, input_value, evaluated, overflow_checks, input_text, tokenized>>

----------------------------------------------------------------------------
(* Errors: InterpreterError, and the panics of the evaluator.              *)

NoError == [kind |-> "None", msg |-> ""]
VariableNotDefined(name) == [kind |-> "VariableNotDefined", msg |-> name]
TypeMismatch(msg) == [kind |-> "TypeMismatch", msg |-> msg]
\* a Rust panic (expect/unwrap on None, integer division by zero, index out of bounds)
Panic(msg) == [kind |-> "Panic", msg |-> msg]

----------------------------------------------------------------------------
(* Data and Number.                                                        *)

Abs(n) == IF n < 0 THEN -n ELSE n
Sign(n) == IF n < 0 THEN -1 ELSE IF n > 0 THEN 1 ELSE 0

RECURSIVE GCD(_, _)
GCD(a, b) == IF b = 0 THEN a ELSE GCD(b, a % b)

NoData == [kind |-> "None", num |-> 0, den |-> 1, s |-> <<>>, b |-> FALSE]
\* Number::Integer(n)
Integer(n) == [kind |-> "Integer", num |-> n, den |-> 1, s |-> <<>>, b |-> FALSE]
\* Number::Float(n / d)
Float(n, d) ==
  IF d = 0
    THEN [kind |-> "Float", num |-> Sign(n), den |-> 0, s |-> <<>>, b |-> FALSE]
    ELSE LET g == GCD(Abs(n), Abs(d))
             sg == Sign(d)
         IN [kind |-> "Float", num |-> (sg * n) \div g, den |-> (sg * d) \div g,
             s |-> <<>>, b |-> FALSE]
\* Data::String, Data::Boolean
String(s) == [kind |-> "String", num |-> 0, den |-> 1, s |-> s, b |-> FALSE]
Boolean(b) == [kind |-> "Boolean", num |-> 0, den |-> 1, s |-> <<>>, b |-> b]

\* a variant of the Data::Number(_) pattern that a Boolean matches too
IsNumber_or_boolean(d) == d.kind \in {"Integer", "Float", "Boolean"}
\* Data::Number(_)
IsNumber(d) == d.kind \in {"Integer", "Float"}
IsNaN(x) == x.den = 0 /\ x.num = 0
IsInf(x) == x.den = 0 /\ x.num # 0

\* `*a as f64` and From<&Number> for f64
as_f64(x) == Float(x.num, x.den)

\* the largest i64 (the range is scaled down from 2^63 - 1) and the smallest
i64_MAX == 63
i64_MIN == (-i64_MAX) - 1
InI64(n) == i64_MIN <= n /\ n <= i64_MAX
\* the two's-complement wrap-around of an i64 operation compiled without overflow checks
wrapping(n) == ((n - i64_MIN) % (2 * (i64_MAX + 1))) + i64_MIN

\* i64 division and remainder truncate toward zero
TruncDiv(a, b) == Sign(a) * Sign(b) * (Abs(a) \div Abs(b))
TruncRem(a, b) == a - b * TruncDiv(a, b)

\* IEEE-754 arithmetic on the rational encoding
f64_add(x, y) ==
  IF IsNaN(x) \/ IsNaN(y) THEN Float(0, 0)
  ELSE IF IsInf(x) /\ IsInf(y) THEN (IF x.num = y.num THEN x ELSE Float(0, 0))
  ELSE IF IsInf(x) THEN x
  ELSE IF IsInf(y) THEN y
  ELSE Float(x.num * y.den + y.num * x.den, x.den * y.den)
f64_neg(x) == Float(-x.num, x.den)
f64_sub(x, y) == f64_add(x, f64_neg(y))
f64_mul(x, y) ==
  IF IsNaN(x) \/ IsNaN(y) THEN Float(0, 0)
  ELSE IF IsInf(x) \/ IsInf(y) THEN Float(Sign(x.num) * Sign(y.num), 0)
  ELSE Float(x.num * y.num, x.den * y.den)
f64_div(x, y) ==
  IF IsNaN(x) \/ IsNaN(y) THEN Float(0, 0)
  ELSE IF IsInf(x) THEN (IF IsInf(y) THEN Float(0, 0) ELSE Float(x.num * (IF y.num < 0 THEN -1 ELSE 1), 0))
  ELSE IF IsInf(y) THEN Float(0, 1)
  ELSE IF y.num = 0 THEN Float(Sign(x.num), 0)
  ELSE Float(x.num * y.den, x.den * y.num)
f64_rem(x, y) ==
  IF IsNaN(x) \/ IsNaN(y) \/ IsInf(x) THEN Float(0, 0)
  ELSE IF IsInf(y) THEN x
  ELSE IF y.num = 0 THEN Float(0, 0)
  ELSE LET q == TruncDiv(x.num * y.den, x.den * y.num)
       IN f64_sub(x, f64_mul(Float(q, 1), y))
f64_eq(x, y) == ~IsNaN(x) /\ ~IsNaN(y) /\ x.num = y.num /\ x.den = y.den
\* partial_cmp: "Less", "Equal", "Greater", or "None" when an operand is NaN
f64_cmp(x, y) ==
  IF IsNaN(x) \/ IsNaN(y) THEN "None"
  ELSE IF x.den = 0 /\ y.den = 0
    THEN (IF x.num < y.num THEN "Less" ELSE IF x.num > y.num THEN "Greater" ELSE "Equal")
  ELSE IF x.den = 0 THEN (IF x.num < 0 THEN "Less" ELSE "Greater")
  ELSE IF y.den = 0 THEN (IF y.num < 0 THEN "Greater" ELSE "Less")
  ELSE LET l == x.num * y.den
           r == y.num * x.den
       IN IF l < r THEN "Less" ELSE IF l > r THEN "Greater" ELSE "Equal"

RECURSIVE IntPow(_, _)
IntPow(x, n) == IF n = 0 THEN Float(1, 1) ELSE f64_mul(x, IntPow(x, n - 1))
\* f64::powf for an integral exponent (the only exponents the programs below use);
\* a non-integral exponent has no exact rational value and is given NaN's encoding
powf(x, y) ==
  IF y.den = 1
    THEN IF y.num >= 0 THEN IntPow(x, y.num)
         ELSE f64_div(Float(1, 1), IntPow(x, -y.num))
    ELSE Float(0, 0)

\* a variant of Number::pow that keeps the Integer kind of two Integers
pow_integer(self, other) ==
  IF self.kind = "Integer" /\ other.kind = "Integer" /\ other.num >= 0
    THEN [powf(as_f64(self), as_f64(other)) EXCEPT !.kind = "Integer"]
  ELSE powf(as_f64(self), as_f64(other))

\* Number::pow
pow(self, other) == powf(as_f64(self), as_f64(other))

BothInteger(a, b) == a.kind = "Integer" /\ b.kind = "Integer"
\* impl Add / Sub / Mul for &Number: the i64 arms, compiled with overflow checks, panic
\* when the exact result is no i64
Overflows(operator, a, b) ==
  /\ BothInteger(a, b)
  /\ overflow_checks
  /\ CASE operator = "Add" -> ~InI64(a.num + b.num)
       [] operator = "Subtract" -> ~InI64(a.num - b.num)
       [] operator = "Multiply" -> ~InI64(a.num * b.num)
       [] OTHER -> FALSE
OverflowMessage(operator) ==
  CASE operator = "Add" -> "attempt to add with overflow"
    [] operator = "Subtract" -> "attempt to subtract with overflow"
    [] operator = "Multiply" -> "attempt to multiply with overflow"
add(a, b) == IF BothInteger(a, b) THEN Integer(wrapping(a.num + b.num)) ELSE f64_add(as_f64(a), as_f64(b))
sub(a, b) == IF BothInteger(a, b) THEN Integer(wrapping(a.num - b.num)) ELSE f64_sub(as_f64(a), as_f64(b))
mul(a, b) == IF BothInteger(a, b) THEN Integer(wrapping(a.num * b.num)) ELSE f64_mul(as_f64(a), as_f64(b))
\* impl Div / Rem for &Number: i64 `/` and `%` panic when the divisor is 0
DivPanics(a, b) == BothInteger(a, b) /\ b.num = 0
\* and, in every build, when the quotient is no i64
DivOverflows(a, b) == BothInteger(a, b) /\ a.num = i64_MIN /\ b.num = -1
div(a, b) == IF BothInteger(a, b) THEN Integer(TruncDiv(a.num, b.num)) ELSE f64_div(as_f64(a), as_f64(b))
rem(a, b) == IF BothInteger(a, b) THEN Integer(TruncRem(a.num, b.num)) ELSE f64_rem(as_f64(a), as_f64(b))
\* impl Neg for &Number
neg(a) == IF a.kind = "Integer" THEN Integer(-a.num) ELSE f64_neg(a)
\* a variant of PartialEq in which an Integer never equals a Float
eq_same_kind(a, b) ==
  IF BothInteger(a, b) THEN a.num = b.num
  ELSE IF a.kind # b.kind THEN FALSE
  ELSE f64_eq(as_f64(a), as_f64(b))

\* impl PartialEq for Number
eq(a, b) == IF BothInteger(a, b) THEN a.num = b.num ELSE f64_eq(as_f64(a), as_f64(b))
\* impl PartialOrd for Number
partial_cmp(a, b) ==
  IF BothInteger(a, b)
    THEN (IF a.num < b.num THEN "Less" ELSE IF a.num > b.num THEN "Greater" ELSE "Equal")
    ELSE f64_cmp(as_f64(a), as_f64(b))

----------------------------------------------------------------------------
(* Display text.                                                            *)

Digits == <<"0", "1", "2", "3", "4", "5", "6", "7", "8", "9">>

RECURSIVE NatToString(_)
NatToString(n) ==
  IF n < 10 THEN <<Digits[n + 1]>> ELSE NatToString(n \div 10) \o <<Digits[(n % 10) + 1]>>
\* i64::to_string
i64_to_string(n) == IF n < 0 THEN <<"-">> \o NatToString(-n) ELSE NatToString(n)

RECURSIVE FracDigits(_, _)
FracDigits(r, d) ==
  IF r = 0 THEN <<>> ELSE <<Digits[((r * 10) \div d) + 1]>> \o FracDigits((r * 10) % d, d)
\* f64::to_string (Display): no fractional part is written for a whole number
f64_to_string(x) ==
  IF x.den = 0
    THEN (IF x.num = 0 THEN <<"N", "a", "N">>
          ELSE IF x.num > 0 THEN <<"i", "n", "f">> ELSE <<"-", "i", "n", "f">>)
    ELSE LET a == Abs(x.num)
             whole == NatToString(a \div x.den)
             frac == FracDigits(a % x.den, x.den)
         IN (IF x.num < 0 THEN <<"-">> ELSE <<>>) \o whole
              \o (IF frac = <<>> THEN <<>> ELSE <<".">> \o frac)
\* Number::to_string
Number_to_string(n) == IF n.kind = "Integer" THEN i64_to_string(n.num) ELSE f64_to_string(n)
\* Data::to_string
Data_to_string(d) ==
  IF IsNumber(d) THEN Number_to_string(d)
  ELSE IF d.kind = "String" THEN d.s
  ELSE IF d.b THEN <<"t", "r", "u", "e">> ELSE <<"f", "a", "l", "s", "e">>

\* char::is_whitespace on the characters the input lines below hold
IsWhitespace(c) == c \in {" ", "\t", "\r", "\n"}
RECURSIVE TrimStart(_)
TrimStart(s) == IF s # <<>> /\ IsWhitespace(Head(s)) THEN TrimStart(Tail(s)) ELSE s
RECURSIVE TrimEnd(_)
TrimEnd(s) ==
  IF s # <<>> /\ IsWhitespace(s[Len(s)]) THEN TrimEnd(SubSeq(s, 1, Len(s) - 1)) ELSE s
\* str::trim
trim(s) == TrimEnd(TrimStart(s))

----------------------------------------------------------------------------
(* Value and Expression (parser.rs).                                        *)

NoLit == NoData
\* Value::Number / Value::String / Value::Boolean / Value::Identifier
VNumber(n) == [t |-> "Number", lit |-> n, name |-> "", operator |-> "", left |-> <<>>, right |-> <<>>]
VString(s) == [t |-> "String", lit |-> String(s), name |-> "", operator |-> "", left |-> <<>>, right |-> <<>>]
VBoolean(b) == [t |-> "Boolean", lit |-> Boolean(b), name |-> "", operator |-> "", left |-> <<>>, right |-> <<>>]
VIdentifier(name) == [t |-> "Identifier", lit |-> NoLit, name |-> name, operator |-> "", left |-> <<>>, right |-> <<>>]

is_operator_single(operator) == operator \in {"Not", "Brackets"}
\* Value::Expression(Box::new(Expression::new(operator, left, right)));
\* Expression::new panics when is_operator_single(operator): it is only used below
\* with a binary operator
new(operator, left, right) ==
  [t |-> "Expression", lit |-> NoLit, name |-> "", operator |-> operator,
   left |-> <<left>>, right |-> <<right>>]
\* a variant of new_not_or_bracket that stores its operand as the right operand too
new_not_or_bracket_with_right(operator, value) ==
  [t |-> "Expression", lit |-> NoLit, name |-> "", operator |-> operator,
   left |-> <<value>>, right |-> <<value>>]
\* Value::Expression(Box::new(Expression::new_not_or_bracket(operator, value)))
new_not_or_bracket(operator, value) ==
  [t |-> "Expression", lit |-> NoLit, name |-> "", operator |-> operator,
   left |-> <<value>>, right |-> <<>>]
get_operator(expr) == expr.operator
get_left(expr) == expr.left[1]
\* Option<&Value>
get_right(expr) == expr.right

----------------------------------------------------------------------------
(* VM: variable lookup and assignment.                                      *)

\* StackFrame::empty(): a frame is its `variables` map
StackFrame_empty == [x \in {} |-> NoData]
\* HashMap::insert
Insert(f, k, v) == [x \in (DOMAIN f) \cup {k} |-> IF x = k THEN v ELSE f[x]]
\* StackFrame::get_frame_variable
get_frame_variable(frame, name) == IF name \in DOMAIN frame THEN <<frame[name]>> ELSE <<>>

MaxOf(S) == CHOOSE x \in S : \A y \in S : y <= x
\* the indices in the order `self.stack.iter_mut().enumerate().rev()` visits them:
\* the first visited is the last of the Vec
FirstVisited(S) == MaxOf(S)
\* a variant of VM::get_variable that looks in the frame at index 0 only
get_variable_current_frame(st, name) ==
  IF st # <<>> /\ get_frame_variable(st[1], name) # <<>>
    THEN <<[data |-> st[1][name], i |-> 1]>>
    ELSE <<>>

\* VM::get_variable: Some((data, i)) as <<[data, i]>>, None as <<>>; i is the TLA+ index
get_variable(st, name) ==
  LET hits == {i \in 1..Len(st) : get_frame_variable(st[i], name) # <<>>}
  IN IF hits = {} THEN <<>>
     ELSE LET i == FirstVisited(hits) IN <<[data |-> st[i][name], i |-> i]>>

Res(st, data, err) == [stack |-> st, data |-> data, err |-> err]

\* a variant of VM::assign_variable that always writes the frame at index 0
VM_assign_variable_shadow(st, name, data) ==
  IF st = <<>> THEN Res(st, NoData, Panic("index out of bounds"))
  ELSE Res([st EXCEPT ![1] = Insert(st[1], name, data)], data, NoError)

\* a variant of VM::assign_variable that writes an existing binding in place only when
\* the frame at index 0 holds it, and inserts into the frame at index 0 otherwise
VM_assign_variable_rebinds(st, name, data) ==
  LET existing_variable == get_variable(st, name)
  IN IF existing_variable # <<>> /\ existing_variable[1].i = 1
       THEN Res([st EXCEPT ![1] = Insert(st[1], name, data)], data, NoError)
     ELSE IF st = <<>>
       THEN Res(st, NoData, Panic("index out of bounds"))
     ELSE Res([st EXCEPT ![1] = Insert(st[1], name, data)], data, NoError)

\* VM::assign_variable: self.stack[0] is st[1]
VM_assign_variable(st, name, data) ==
  LET existing_variable == get_variable(st, name)
  IN IF existing_variable # <<>>
       THEN LET i == existing_variable[1].i
            IN Res([st EXCEPT ![i] = Insert(st[i], name, data)], data, NoError)
     ELSE IF st = <<>>
       THEN Res(st, NoData, Panic("index out of bounds"))
     ELSE Res([st EXCEPT ![1] = Insert(st[1], name, data)], data, NoError)

----------------------------------------------------------------------------
(* StackFrame::evaluate_value.                                              *)

Ordering == {"LessThan", "LessThanOrEqual", "GreaterThan", "GreaterThanOrEqual"}
Arithmetic == {"Add", "Subtract", "Multiply", "Divide", "Modulo", "Exponent"}
Compound == {"AddAssign", "SubtractAssign", "MultiplyAssign", "DivideAssign", "ModuloAssign"}

ArithmeticMessage(operator) ==
  CASE operator = "Add" -> "Expected 2 strings or 2 numbers when adding"
    [] operator = "Subtract" -> "Expected 2 numbers when subtracting"
    [] operator = "Multiply" -> "Expected 2 numbers when multiplying"
    [] operator = "Divide" -> "Expected 2 numbers when dividing"
    [] operator = "Modulo" -> "Expected 2 numbers when taking modulo"
    [] operator = "Exponent" -> "Expected 2 numbers when taking exponent"

Val(data) == [data |-> data, err |-> NoError]
Err(err) == [data |-> NoData, err |-> err]

\* the `match (left, right)` of each binary arm of evaluate_value
Apply(operator, l, r) ==
  CASE operator \in Arithmetic ->
         IF IsNumber(l) /\ IsNumber(r)
           THEN IF Overflows(operator, l, r) THEN Err(Panic(OverflowMessage(operator)))
                ELSE
                CASE operator = "Add" -> Val(add(l, r))
                  [] operator = "Subtract" -> Val(sub(l, r))
                  [] operator = "Multiply" -> Val(mul(l, r))
                  [] operator = "Divide" ->
                       IF DivPanics(l, r) THEN Err(Panic("attempt to divide by zero"))
                       ELSE IF DivOverflows(l, r) THEN Err(Panic("attempt to divide with overflow"))
                       ELSE Val(div(l, r))
                  [] operator = "Modulo" ->
                       IF DivPanics(l, r)
                         THEN Err(Panic("attempt to calculate the remainder with a divisor of zero"))
                       ELSE IF DivOverflows(l, r)
                         THEN Err(Panic("attempt to calculate the remainder with overflow"))
                       ELSE Val(rem(l, r))
                  [] operator = "Exponent" -> Val(pow(l, r))
         ELSE IF operator = "Add" /\ l.kind = "String" /\ r.kind = "String"
           THEN Val(String(l.s \o r.s))
         ELSE Err(TypeMismatch(ArithmeticMessage(operator)))
    [] operator = "Equal" ->
         IF IsNumber(l) /\ IsNumber(r) THEN Val(Boolean(eq(l, r)))
         ELSE IF l.kind = "String" /\ r.kind = "String" THEN Val(Boolean(l.s = r.s))
         ELSE IF l.kind = "Boolean" /\ r.kind = "Boolean" THEN Val(Boolean(l.b = r.b))
         ELSE Val(Boolean(FALSE))
    [] operator = "NotEqual" ->
         IF IsNumber(l) /\ IsNumber(r) THEN Val(Boolean(~eq(l, r)))
         ELSE IF l.kind = "String" /\ r.kind = "String" THEN Val(Boolean(l.s # r.s))
         ELSE IF l.kind = "Boolean" /\ r.kind = "Boolean" THEN Val(Boolean(l.b # r.b))
         ELSE Val(Boolean(TRUE))
    [] operator \in Ordering ->
         IF IsNumber(l) /\ IsNumber(r)
           THEN LET c == partial_cmp(l, r)
                IN CASE operator = "LessThan" -> Val(Boolean(c = "Less"))
                     [] operator = "LessThanOrEqual" -> Val(Boolean(c \in {"Less", "Equal"}))
                     [] operator = "GreaterThan" -> Val(Boolean(c = "Greater"))
                     [] operator = "GreaterThanOrEqual" -> Val(Boolean(c \in {"Greater", "Equal"}))
         ELSE Err(TypeMismatch("Expected 2 numbers "))
    [] operator \in {"And", "Or"} ->
         IF l.kind = "Boolean" /\ r.kind = "Boolean"
           THEN Val(Boolean(IF operator = "And" THEN l.b /\ r.b ELSE l.b \/ r.b))
         ELSE Err(TypeMismatch("Expected 2 booleans "))

RECURSIVE evaluate_value(_, _)
RECURSIVE EvalBinary(_, _)
RECURSIVE assign_variable(_, _, _)
RECURSIVE assign_variable_with_operator(_, _, _, _)

\* a variant of the binary arms in which And and Or short-circuit
EvalBinary_short_circuit(expr, st) ==
  LET l == evaluate_value(get_left(expr), st)
  IN IF l.err # NoError THEN l
     ELSE IF get_right(expr) = <<>>
       THEN Res(l.stack, NoData, Panic("No right for operator"))
     ELSE IF get_operator(expr) = "And" /\ l.data.kind = "Boolean" /\ ~l.data.b
       THEN Res(l.stack, Boolean(FALSE), NoError)
     ELSE IF get_operator(expr) = "Or" /\ l.data.kind = "Boolean" /\ l.data.b
       THEN Res(l.stack, Boolean(TRUE), NoError)
     ELSE LET r == evaluate_value(get_right(expr)[1], l.stack)
          IN IF r.err # NoError THEN r
             ELSE LET a == Apply(get_operator(expr), l.data, r.data)
                  IN Res(r.stack, a.data, a.err)

\* a binary arm: `let left = self.evaluate_value(left)?;
\* let right = self.evaluate_value(expr.get_right().expect(..))?; match (left, right)`
EvalBinary(expr, st) ==
  LET l == evaluate_value(get_left(expr), st)
  IN IF l.err # NoError THEN l
     ELSE IF get_right(expr) = <<>>
       THEN Res(l.stack, NoData, Panic("No right for operator"))
     ELSE LET r == evaluate_value(get_right(expr)[1], l.stack)
          IN IF r.err # NoError THEN r
             ELSE LET a == Apply(get_operator(expr), l.data, r.data)
                  IN Res(r.stack, a.data, a.err)

\* a variant of assign_variable that evaluates the right operand before it looks at
\* the left one
assign_variable_right_first(left, right, st) ==
  LET data == evaluate_value(right, st)
  IN IF data.err # NoError THEN data
     ELSE IF left.t # "Identifier"
       THEN Res(data.stack, NoData, TypeMismatch("Expected identifier on left side of assignment"))
     ELSE VM_assign_variable(data.stack, left.name, data.data)

\* StackFrame::assign_variable
assign_variable(left, right, st) ==
  IF left.t # "Identifier"
    THEN Res(st, NoData, TypeMismatch("Expected identifier on left side of assignment"))
  ELSE LET data == evaluate_value(right, st)
       IN IF data.err # NoError THEN data
          ELSE VM_assign_variable(data.stack, left.name, data.data)

\* a variant of assign_variable_with_operator that builds `rhs <op> name`
assign_variable_with_operator_swapped(left, right, operator, st) ==
  IF left.t # "Identifier"
    THEN Res(st, NoData, TypeMismatch("Expected identifier on left side of assignment"))
  ELSE LET data == evaluate_value(new(operator, right, left), st)
       IN IF data.err # NoError THEN data
          ELSE VM_assign_variable(data.stack, left.name, data.data)

\* StackFrame::assign_variable_with_operator; its inner `match operator` maps the
\* binary operator it is handed to itself
assign_variable_with_operator(left, right, operator, st) ==
  IF left.t # "Identifier"
    THEN Res(st, NoData, TypeMismatch("Expected identifier on left side of assignment"))
  ELSE LET data == evaluate_value(new(operator, left, right), st)
       IN IF data.err # NoError THEN data
          ELSE VM_assign_variable(data.stack, left.name, data.data)

CompoundOperator(operator) ==
  CASE operator = "AddAssign" -> "Add"
    [] operator = "SubtractAssign" -> "Subtract"
    [] operator = "MultiplyAssign" -> "Multiply"
    [] operator = "DivideAssign" -> "Divide"
    [] operator = "ModuloAssign" -> "Modulo"

\* StackFrame::evaluate_value(value, vm) with vm.stack = st: the resulting vm.stack
\* and Ok(data) (err = NoError), Err(err), or a panic (err.kind = "Panic")
evaluate_value(value, st) ==
  CASE value.t \in {"Number", "String", "Boolean"} -> Res(st, value.lit, NoError)
    [] value.t = "Identifier" ->
         LET variable == get_variable(st, value.name)
         IN IF variable = <<>> THEN Res(st, NoData, VariableNotDefined(value.name))
            ELSE Res(st, variable[1].data, NoError)
    [] value.t = "Expression" ->
         LET operator == get_operator(value)
         IN CASE operator = "Not" ->
                   LET l == evaluate_value(get_left(value), st)
                   IN IF l.err # NoError THEN l
                      ELSE IF l.data.kind = "Boolean" THEN Res(l.stack, Boolean(~l.data.b), NoError)
                      ELSE Res(l.stack, NoData, TypeMismatch("Expected 1 boolean "))
              [] operator = "Brackets" -> evaluate_value(get_left(value), st)
              [] operator = "Assign" ->
                   IF get_right(value) = <<>>
                     THEN Res(st, NoData, Panic("No right for assignment"))
                   ELSE assign_variable(get_left(value), get_right(value)[1], st)
              [] operator \in Compound ->
                   IF get_right(value) = <<>>
                     THEN Res(st, NoData, Panic("No right for assignment"))
                   ELSE assign_variable_with_operator(
                          get_left(value), get_right(value)[1], CompoundOperator(operator), st)
              [] OTHER -> EvalBinary(value, st)

----------------------------------------------------------------------------
(* Instruction (parser.rs).                                                 *)

NoValue == [t |-> "None", lit |-> NoLit, name |-> "", operator |-> "", left |-> <<>>, right |-> <<>>]
Instruction_If(condition, instructions) ==
  [op |-> "If", condition |-> condition, instructions |-> instructions, value |-> NoValue, variable |-> ""]
Instruction_Else(instructions) ==
  [op |-> "Else", condition |-> NoValue, instructions |-> instructions, value |-> NoValue, variable |-> ""]
Instruction_While(condition, instructions) ==
  [op |-> "While", condition |-> condition, instructions |-> instructions, value |-> NoValue, variable |-> ""]
Instruction_Scope(instructions) ==
  [op |-> "Scope", condition |-> NoValue, instructions |-> instructions, value |-> NoValue, variable |-> ""]
Instruction_Value(value) ==
  [op |-> "Value", condition |-> NoValue, instructions |-> <<>>, value |-> value, variable |-> ""]
Instruction_Break ==
  [op |-> "Break", condition |-> NoValue, instructions |-> <<>>, value |-> NoValue, variable |-> ""]
\* Instruction::Print { message }
Instruction_Print(message) ==
  [op |-> "Print", condition |-> NoValue, instructions |-> <<>>, value |-> message, variable |-> ""]
Instruction_Input(variable) ==
  [op |-> "Input", condition |-> NoValue, instructions |-> <<>>, value |-> NoValue, variable |-> variable]

----------------------------------------------------------------------------
(* Token (tokenizer.rs) and the parser (parser.rs).  A Peekable token       *)
(* stream is the sequence of the tokens not yet taken.                      *)

\* Token: `name` is the identifier, the Operator or the Keyword; `lit` the literal
Token(t, name, lit) == [t |-> t, name |-> name, lit |-> lit]
Token_EndStatement == Token("EndStatement", "", NoData)
Token_Identifier(name) == Token("Identifier", name, NoData)
Token_Number(n) == Token("Number", "", n)
Token_String(s) == Token("String", "", String(s))
Token_Operator(operator) == Token("Operator", operator, NoData)
Token_Keyword(keyword) == Token("Keyword", keyword, NoData)
Token_Comment(s) == Token("Comment", "", String(s))
Token_ScopeOpen == Token("ScopeOpen", "", NoData)
Token_ScopeClose == Token("ScopeClose", "", NoData)
Token_BracketOpen == Token("BracketOpen", "", NoData)
Token_BracketClose == Token("BracketClose", "", NoData)
Token_Boolean(b) == Token("Boolean", "", Boolean(b))

\* ParserError
NoToken == Token("None", "", NoData)
NoParserError == [kind |-> "None", token |-> NoToken]
ExpectedToken(token) == [kind |-> "ExpectedToken", token |-> token]
UnexpectedToken(token) == [kind |-> "UnexpectedToken", token |-> token]
UnexpectedEnd == [kind |-> "UnexpectedEnd", token |-> NoToken]

\* the `while let Some(token) = token_stream.next()` loop shared by
\* parse_already_open_brackets and parse_already_open_scope: open and close are the
\* token kinds it counts; the result is the span, the stream left and the final count
RECURSIVE CountedSpan(_, _, _, _, _)
\* a variant of the loop for which the end of the stream closes the span
CountedSpan_end_closes(token_stream, tokens, bracket_count, open, close) ==
  IF token_stream = <<>>
    THEN [tokens |-> tokens, rest |-> <<>>, bracket_count |-> 0]
  ELSE LET token == Head(token_stream)
           count == IF token.t = open THEN bracket_count + 1
                    ELSE IF token.t = close THEN bracket_count - 1
                    ELSE bracket_count
       IN IF count = 0
            THEN [tokens |-> tokens, rest |-> Tail(token_stream), bracket_count |-> 0]
          ELSE CountedSpan(Tail(token_stream), Append(tokens, token), count, open, close)

CountedSpan(token_stream, tokens, bracket_count, open, close) ==
  IF token_stream = <<>>
    THEN [tokens |-> tokens, rest |-> <<>>, bracket_count |-> bracket_count]
  ELSE LET token == Head(token_stream)
           count == IF token.t = open THEN bracket_count + 1
                    ELSE IF token.t = close THEN bracket_count - 1
                    ELSE bracket_count
       IN IF count = 0
            THEN [tokens |-> tokens, rest |-> Tail(token_stream), bracket_count |-> 0]
          ELSE CountedSpan(Tail(token_stream), Append(tokens, token), count, open, close)

\* a variant of parse_already_open_brackets that stops at the first BracketClose
parse_already_open_brackets_flat(token_stream) ==
  LET s == CountedSpan(token_stream, <<>>, 1, "None", "BracketClose")
  IN IF s.bracket_count # 0
       THEN [tokens |-> <<>>, rest |-> s.rest, err |-> UnexpectedEnd]
     ELSE [tokens |-> s.tokens, rest |-> s.rest, err |-> NoParserError]

\* parse_already_open_brackets: Ok(tokens) and the stream left, or Err
parse_already_open_brackets(token_stream) ==
  LET s == CountedSpan(token_stream, <<>>, 1, "BracketOpen", "BracketClose")
  IN IF s.bracket_count # 0
       THEN [tokens |-> <<>>, rest |-> s.rest, err |-> UnexpectedEnd]
     ELSE [tokens |-> s.tokens, rest |-> s.rest, err |-> NoParserError]

\* parse_brackets
parse_brackets(token_stream) ==
  IF token_stream # <<>> /\ Head(token_stream).t = "BracketOpen"
    THEN parse_already_open_brackets(Tail(token_stream))
  ELSE [tokens |-> <<>>, rest |-> token_stream, err |-> ExpectedToken(Token_BracketOpen)]

ValueOk(v) == [value |-> v, err |-> NoParserError]
ValueErr(err) == [value |-> NoValue, err |-> err]

\* the tokens an expression statement is made of (parse, lines 98-104)
IsValueToken(token) ==
  token.t \in {"Number", "String", "Boolean", "Identifier", "Operator", "BracketOpen", "BracketClose"}

RECURSIVE parse_value(_)
RECURSIVE parse_value_loop(_, _)
\* a variant of the loop of parse_value in which an operator takes the next operand
\* only, so that operators of a chain group to the left
parse_value_loop_left_nested(value, tokens) ==
  IF tokens = <<>>
    THEN IF value # <<>> THEN ValueOk(value[1]) ELSE ValueErr(UnexpectedEnd)
  ELSE LET token == Head(tokens)
           rest == Tail(tokens)
       IN IF value # <<>>
            THEN IF token.t = "Operator"
                   THEN IF is_operator_single(token.name)
                          THEN parse_value_loop(<<new_not_or_bracket(token.name, value[1])>>, rest)
                        ELSE IF rest = <<>> THEN ValueErr(UnexpectedEnd)
                        ELSE IF Head(rest).t \notin {"Identifier", "Number", "String", "Boolean"}
                          THEN LET right == parse_value(rest)
                               IN IF right.err # NoParserError THEN right
                                  ELSE ValueOk(new(token.name, value[1], right.value))
                        ELSE LET right == parse_value(<<Head(rest)>>)
                             IN parse_value_loop(<<new(token.name, value[1], right.value)>>, Tail(rest))
                 ELSE ValueErr(ExpectedToken(token))
          ELSE CASE token.t = "Identifier" -> parse_value_loop(<<VIdentifier(token.name)>>, rest)
                 [] token.t = "Number" -> parse_value_loop(<<VNumber(token.lit)>>, rest)
                 [] token.t = "String" -> parse_value_loop(<<VString(token.lit.s)>>, rest)
                 [] token.t = "Boolean" -> parse_value_loop(<<VBoolean(token.lit.b)>>, rest)
                 [] token.t = "BracketOpen" ->
                      LET bracketed_tokens == parse_already_open_brackets(rest)
                      IN IF bracketed_tokens.err # NoParserError
                           THEN ValueErr(bracketed_tokens.err)
                         ELSE LET inner == parse_value(bracketed_tokens.tokens)
                              IN IF inner.err # NoParserError THEN inner
                                 ELSE parse_value_loop(<<inner.value>>, bracketed_tokens.rest)
                 [] token.t = "BracketClose" -> ValueErr(UnexpectedToken(token))
                 [] token.t = "EndStatement" -> ValueErr(UnexpectedEnd)
                 [] OTHER -> ValueErr(UnexpectedToken(token))

\* the loop of parse_value: value is the Option<Value> built so far
parse_value_loop(value, tokens) ==
  IF tokens = <<>>
    THEN IF value # <<>> THEN ValueOk(value[1]) ELSE ValueErr(UnexpectedEnd)
  ELSE LET token == Head(tokens)
           rest == Tail(tokens)
       IN IF value # <<>>
            THEN IF token.t = "Operator"
                   THEN IF is_operator_single(token.name)
                          THEN parse_value_loop(<<new_not_or_bracket(token.name, value[1])>>, rest)
                        ELSE LET right == parse_value(rest)
                             IN IF right.err # NoParserError THEN right
                                ELSE ValueOk(new(token.name, value[1], right.value))
                 ELSE ValueErr(ExpectedToken(token))
          ELSE CASE token.t = "Identifier" -> parse_value_loop(<<VIdentifier(token.name)>>, rest)
                 [] token.t = "Number" -> parse_value_loop(<<VNumber(token.lit)>>, rest)
                 [] token.t = "String" -> parse_value_loop(<<VString(token.lit.s)>>, rest)
                 [] token.t = "Boolean" -> parse_value_loop(<<VBoolean(token.lit.b)>>, rest)
                 [] token.t = "BracketOpen" ->
                      LET bracketed_tokens == parse_already_open_brackets(rest)
                      IN IF bracketed_tokens.err # NoParserError
                           THEN ValueErr(bracketed_tokens.err)
                         ELSE LET inner == parse_value(bracketed_tokens.tokens)
                              IN IF inner.err # NoParserError THEN inner
                                 ELSE parse_value_loop(<<inner.value>>, bracketed_tokens.rest)
                 [] token.t = "BracketClose" -> ValueErr(UnexpectedToken(token))
                 [] token.t = "EndStatement" -> ValueErr(UnexpectedEnd)
                 [] OTHER -> ValueErr(UnexpectedToken(token))

\* parse_value
parse_value(tokens) == parse_value_loop(<<>>, tokens)

ParseOk(instructions) == [instructions |-> instructions, err |-> NoParserError]
ParseErr(err) == [instructions |-> <<>>, err |-> err]

\* the `while let Some(next_token) = tokens.peek()` loop of an expression statement
RECURSIVE value_tokens(_, _)
value_tokens(taken, tokens) ==
  IF tokens = <<>> \/ Head(tokens).t = "EndStatement"
    THEN [tokens |-> taken, rest |-> tokens, err |-> NoParserError]
  ELSE IF IsValueToken(Head(tokens))
    THEN value_tokens(Append(taken, Head(tokens)), Tail(tokens))
  ELSE [tokens |-> taken, rest |-> tokens, err |-> UnexpectedToken(Head(tokens))]

RECURSIVE parse(_)

\* parse_already_open_scope: Ok(instructions) and the stream left, or Err
parse_already_open_scope(token_stream) ==
  LET s == CountedSpan(token_stream, <<>>, 1, "ScopeOpen", "ScopeClose")
  IN IF s.bracket_count # 0
       THEN [instructions |-> <<>>, rest |-> s.rest, err |-> UnexpectedEnd]
     ELSE LET p == parse(s.tokens)
          IN [instructions |-> p.instructions, rest |-> s.rest, err |-> p.err]

\* parse_scope
parse_scope(token_stream) ==
  IF token_stream # <<>> /\ Head(token_stream).t = "ScopeOpen"
    THEN parse_already_open_scope(Tail(token_stream))
  ELSE [instructions |-> <<>>, rest |-> token_stream, err |-> ExpectedToken(Token_ScopeOpen)]

Parsed(instruction, rest) == [instruction |-> instruction, rest |-> rest, err |-> NoParserError]
Failed(err) == [instruction |-> <<>>, rest |-> <<>>, err |-> err]

\* `parse_brackets`, `parse_value`, `parse_scope` in a row (Keyword::If, Keyword::While)
ConditionAndScope(op, tokens) ==
  LET condition_tokens == parse_brackets(tokens)
  IN IF condition_tokens.err # NoParserError THEN Failed(condition_tokens.err)
     ELSE LET condition == parse_value(condition_tokens.tokens)
          IN IF condition.err # NoParserError THEN Failed(condition.err)
             ELSE LET scope == parse_scope(condition_tokens.rest)
                  IN IF scope.err # NoParserError THEN Failed(scope.err)
                     ELSE Parsed(<<[op |-> op, condition |-> condition.value,
                                    instructions |-> scope.instructions,
                                    value |-> NoValue, variable |-> ""]>>, scope.rest)

\* a variant of the loop's match with an arm for ScopeOpen that parses the block up to
\* its ScopeClose into Instruction::Scope
statement_with_bare_scope(token, tokens) ==
  CASE token.t = "Comment" -> Parsed(<<>>, tokens)
    [] token.t = "Keyword" /\ token.name \in {"If", "While"} -> ConditionAndScope(token.name, tokens)
    [] token.t = "Keyword" /\ token.name = "Else" ->
         LET scope == parse_scope(tokens)
         IN IF scope.err # NoParserError THEN Failed(scope.err)
            ELSE Parsed(<<Instruction_Else(scope.instructions)>>, scope.rest)
    [] token.t = "Keyword" /\ token.name = "Print" ->
         LET value_brackets == parse_brackets(tokens)
         IN IF value_brackets.err # NoParserError THEN Failed(value_brackets.err)
            ELSE LET v == parse_value(value_brackets.tokens)
                 IN IF v.err # NoParserError THEN Failed(v.err)
                    ELSE Parsed(<<Instruction_Print(v.value)>>, value_brackets.rest)
    [] token.t = "Keyword" /\ token.name = "Input" ->
         IF tokens # <<>> /\ Head(tokens).t = "Identifier"
           THEN Parsed(<<Instruction_Input(Head(tokens).name)>>, Tail(tokens))
         ELSE Failed(ExpectedToken(Token_Identifier("")))
    [] token.t = "Keyword" /\ token.name = "Break" -> Parsed(<<Instruction_Break>>, tokens)
    [] token.t = "EndStatement" -> Parsed(<<>>, tokens)
    [] token.t \in {"Number", "String", "Boolean", "Identifier", "Operator", "BracketOpen"} ->
         LET taken == value_tokens(<<token>>, tokens)
         IN IF taken.err # NoParserError THEN Failed(taken.err)
            ELSE LET v == parse_value(taken.tokens)
                 IN IF v.err # NoParserError THEN Failed(v.err)
                    ELSE Parsed(<<Instruction_Value(v.value)>>, taken.rest)
    [] token.t = "ScopeOpen" ->
         LET scope == parse_already_open_scope(tokens)
         IN IF scope.err # NoParserError THEN Failed(scope.err)
            ELSE Parsed(<<Instruction_Scope(scope.instructions)>>, scope.rest)
    [] OTHER -> Failed(UnexpectedToken(token))

\* one pass of the loop of parse: `token` is taken from the stream and matched; the
\* result is the Option<Instruction> and the stream left, or the Err parse returns
statement(token, tokens) ==
  CASE token.t = "Comment" -> Parsed(<<>>, tokens)
    [] token.t = "Keyword" /\ token.name \in {"If", "While"} -> ConditionAndScope(token.name, tokens)
    [] token.t = "Keyword" /\ token.name = "Else" ->
         LET scope == parse_scope(tokens)
         IN IF scope.err # NoParserError THEN Failed(scope.err)
            ELSE Parsed(<<Instruction_Else(scope.instructions)>>, scope.rest)
    [] token.t = "Keyword" /\ token.name = "Print" ->
         LET value_brackets == parse_brackets(tokens)
         IN IF value_brackets.err # NoParserError THEN Failed(value_brackets.err)
            ELSE LET v == parse_value(value_brackets.tokens)
                 IN IF v.err # NoParserError THEN Failed(v.err)
                    ELSE Parsed(<<Instruction_Print(v.value)>>, value_brackets.rest)
    [] token.t = "Keyword" /\ token.name = "Input" ->
         IF tokens # <<>> /\ Head(tokens).t = "Identifier"
           THEN Parsed(<<Instruction_Input(Head(tokens).name)>>, Tail(tokens))
         ELSE Failed(ExpectedToken(Token_Identifier("")))
    [] token.t = "Keyword" /\ token.name = "Break" -> Parsed(<<Instruction_Break>>, tokens)
    [] token.t = "EndStatement" -> Parsed(<<>>, tokens)
    [] token.t \in {"Number", "String", "Boolean", "Identifier", "Operator", "BracketOpen"} ->
         LET taken == value_tokens(<<token>>, tokens)
         IN IF taken.err # NoParserError THEN Failed(taken.err)
            ELSE LET v == parse_value(taken.tokens)
                 IN IF v.err # NoParserError THEN Failed(v.err)
                    ELSE Parsed(<<Instruction_Value(v.value)>>, taken.rest)
    [] OTHER -> Failed(UnexpectedToken(token))

\* parse: Ok(instructions) or Err(err); an Err drops the instructions built so far
parse(tokens) ==
  IF tokens = <<>> THEN ParseOk(<<>>)
  ELSE LET s == statement(Head(tokens), Tail(tokens))
       IN IF s.err # NoParserError THEN ParseErr(s.err)
          ELSE LET later == parse(s.rest)
               IN IF later.err # NoParserError THEN later
                  ELSE ParseOk(s.instruction \o later.instructions)

----------------------------------------------------------------------------
(* The programs interpret is run on.  They are Instruction trees, the input *)
(* of interpret: besides what parse builds from source text they use the    *)
(* Scope instruction and the And, Or and Brackets operators, which          *)
(* StackFrame::run and evaluate_value handle.  A parenthesised operand is   *)
(* the operand's own tree, as parse_value builds it.                        *)

\* the longest generated instruction list
MaxProgLen == 3
\* the iterations of the counting loops
MaxLoop == 2

Id(name) == VIdentifier(name)
Num(n) == VNumber(Integer(n))
Half == VNumber(Float(1, 2))
Str(s) == VString(s)
True == VBoolean(TRUE)
False == VBoolean(FALSE)
Bin(l, operator, r) == new(operator, l, r)
Set(name, v) == Instruction_Value(new("Assign", Id(name), v))
Paren(v) == new_not_or_bracket("Brackets", v)
Not(v) == new_not_or_bracket("Not", v)

\* Programs written out, each under its source text
Written == <<
  \* a = 1; { a = 2; } print(a);
  << Set("a", Num(1)), Instruction_Scope(<<Set("a", Num(2))>>), Instruction_Print(Id("a")) >>,
  \* { b = 3; } print(b);
  << Instruction_Scope(<<Set("b", Num(3))>>), Instruction_Print(Id("b")) >>,
  \* if (true) { b = 3; print(b); } print(b);
  << Instruction_If(True, <<Set("b", Num(3)), Instruction_Print(Id("b"))>>),
     Instruction_Print(Id("b")) >>,
  \* print(c);
  << Instruction_Print(Id("c")), Instruction_Print(Str(<<"n", "o">>)) >>,
  \* while (true) { break; } print("after");
  << Instruction_While(True, <<Instruction_Break>>), Instruction_Print(Str(<<"a", "f", "t", "e", "r">>)) >>,
  \* i = 0; while (i < MaxLoop) { i += 1; print(i); } print("done");
  << Set("i", Num(0)),
     Instruction_While(Bin(Id("i"), "LessThan", Num(MaxLoop)),
       << Instruction_Value(Bin(Id("i"), "AddAssign", Num(1))), Instruction_Print(Id("i")) >>),
     Instruction_Print(Str(<<"d", "o", "n", "e">>)) >>,
  \* i = 0; while (i < MaxLoop) { i += 1; if (true) { break; print("x"); } print(i); }
  << Set("i", Num(0)),
     Instruction_While(Bin(Id("i"), "LessThan", Num(MaxLoop)),
       << Instruction_Value(Bin(Id("i"), "AddAssign", Num(1))),
          Instruction_If(True, <<Instruction_Break, Instruction_Print(Str(<<"x">>))>>),
          Instruction_Print(Id("i")) >>) >>,
  \* i = 0; while (i < MaxLoop) { i += 1; break; print(i); } print(i);
  << Set("i", Num(0)),
     Instruction_While(Bin(Id("i"), "LessThan", Num(MaxLoop)),
       << Instruction_Value(Bin(Id("i"), "AddAssign", Num(1))), Instruction_Break,
          Instruction_Print(Id("i")) >>),
     Instruction_Print(Id("i")) >>,
  \* while ("s") { print("x"); } else { print("e"); }
  << Instruction_While(Str(<<"s">>), <<Instruction_Print(Str(<<"x">>))>>),
     Instruction_Else(<<Instruction_Print(Str(<<"e">>))>>) >>,
  \* if (1 + 1) { print("x"); } else { print("e"); }
  << Instruction_If(Bin(Num(1), "Add", Num(1)), <<Instruction_Print(Str(<<"x">>))>>),
     Instruction_Else(<<Instruction_Print(Str(<<"e">>))>>) >>,
  \* while (false) { print("x"); } print("y");
  << Instruction_While(False, <<Instruction_Print(Str(<<"x">>))>>), Instruction_Print(Str(<<"y">>)) >>,
  \* b = true; while (b) { b = false; a = 1; print(a); } print(a);
  << Set("b", True),
     Instruction_While(Id("b"), <<Set("b", False), Set("a", Num(1)), Instruction_Print(Id("a"))>>),
     Instruction_Print(Id("a")) >>,
  \* i = 0; while (i < 1) { i = "s"; }
  << Set("i", Num(0)), Instruction_While(Bin(Id("i"), "LessThan", Num(1)), <<Set("i", Str(<<"s">>))>>) >>,
  \* print(false && (a = true)); print(a);
  << Instruction_Print(Bin(False, "And", Bin(Id("a"), "Assign", True))), Instruction_Print(Id("a")) >>,
  \* print(true || (a = false)); print(a);
  << Instruction_Print(Bin(True, "Or", Bin(Id("a"), "Assign", False))), Instruction_Print(Id("a")) >>,
  \* print(false && c); print("no");
  << Instruction_Print(Bin(False, "And", Id("c"))), Instruction_Print(Str(<<"n", "o">>)) >>,
  \* print(true || 1);
  << Instruction_Print(Bin(True, "Or", Num(1))) >>,
  \* print((a = 1) + a); print((a = 2) - (a = 3)); print(a);
  << Instruction_Print(Bin(Bin(Id("a"), "Assign", Num(1)), "Add", Id("a"))),
     Instruction_Print(Bin(Bin(Id("a"), "Assign", Num(2)), "Subtract",
                           Bin(Id("a"), "Assign", Num(3)))),
     Instruction_Print(Id("a")) >>,
  \* if (true) { print(c + (a = 1)); } print(a);
  << Instruction_If(True, <<Instruction_Print(Bin(Id("c"), "Add", Bin(Id("a"), "Assign", Num(1))))>>),
     Instruction_Print(Id("a")) >>,
  \* print((a = 1) < "s");
  << Instruction_Print(Bin(Bin(Id("a"), "Assign", Num(1)), "LessThan", Str(<<"s">>))) >>,
  \* c; print("no");
  << Instruction_Value(Id("c")), Instruction_Print(Str(<<"n", "o">>)) >>,
  \* if (true) { a = 1 + "s"; } print("no");
  << Instruction_If(True, <<Set("a", Bin(Num(1), "Add", Str(<<"s">>)))>>),
     Instruction_Print(Str(<<"n", "o">>)) >>,
  \* if (true) { while (true) { print(c); } print("no"); } print("no");
  << Instruction_If(True,
       << Instruction_While(True, <<Instruction_Print(Id("c"))>>), Instruction_Print(Str(<<"n", "o">>)) >>),
     Instruction_Print(Str(<<"n", "o">>)) >>,
  \* a = 1; if (true) { if (true) { a = 2; b = 4; print(a); } print(a); b = 5; } print(a);
  << Set("a", Num(1)),
     Instruction_If(True,
       << Instruction_If(True, <<Set("a", Num(2)), Set("b", Num(4)), Instruction_Print(Id("a"))>>),
          Instruction_Print(Id("a")), Set("b", Num(5)) >>),
     Instruction_Print(Id("a")) >>,
  \* if (true) { b = 3; if (true) { b = 4; c = 1; } print(b); }
  << Instruction_If(True,
       << Set("b", Num(3)), Instruction_If(True, <<Set("b", Num(4)), Set("c", Num(1))>>),
          Instruction_Print(Id("b")) >>) >>,
  \* if (true) { input x; print(x); } print(x);
  << Instruction_If(True, <<Instruction_Input("x"), Instruction_Print(Id("x"))>>),
     Instruction_Print(Id("x")) >>,
  \* x = 1; { input x; } print(x + "!");
  << Set("x", Num(1)), Instruction_Scope(<<Instruction_Input("x")>>),
     Instruction_Print(Bin(Id("x"), "Add", Str(<<"!">>))) >>,
  \* a = 7; { a += 1; a -= 2; a *= 3; a /= 4; a %= 3; print(a); b += 1; }
  << Set("a", Num(7)),
     Instruction_Scope(
       << Instruction_Value(Bin(Id("a"), "AddAssign", Num(1))),
          Instruction_Value(Bin(Id("a"), "SubtractAssign", Num(2))),
          Instruction_Value(Bin(Id("a"), "MultiplyAssign", Num(3))),
          Instruction_Value(Bin(Id("a"), "DivideAssign", Num(4))),
          Instruction_Value(Bin(Id("a"), "ModuloAssign", Num(3))),
          Instruction_Print(Id("a")),
          Instruction_Value(Bin(Id("b"), "AddAssign", Num(1))) >>) >>,
  \* print((2 + 3)); print(2 + 0.5); print(2 ^ 3); print("a" + "b"); print(true !); print(1 == "1"); print(1 / 0);
  \* with the grouping kept as a Brackets node
  << Instruction_Print(Paren(Bin(Num(2), "Add", Num(3)))), Instruction_Print(Bin(Num(2), "Add", Half)),
     Instruction_Print(Bin(Num(2), "Exponent", Num(3))),
     Instruction_Print(Bin(Str(<<"a">>), "Add", Str(<<"b">>))),
     Instruction_Print(Not(True)), Instruction_Print(Bin(Num(1), "Equal", Str(<<"1">>))),
     Instruction_Print(Bin(Num(1), "Divide", Num(0))) >>,
  \* if (false) { } else { break; print("no"); } print("after");
  << Instruction_If(False, <<>>),
     Instruction_Else(<<Instruction_Break, Instruction_Print(Str(<<"n", "o">>))>>),
     Instruction_Print(Str(<<"a", "f", "t", "e", "r">>)) >>,
  \* print(7 / 0); print("no");
  << Instruction_Print(Bin(Num(7), "Divide", Num(0))), Instruction_Print(Str(<<"n", "o">>)) >>,
  \* if (true) { print(7 % 0); } print("no");
  << Instruction_If(True, <<Instruction_Print(Bin(Num(7), "Modulo", Num(0)))>>),
     Instruction_Print(Str(<<"n", "o">>)) >>,
  \* a = 0; while (1 / a < 1) { print("no"); } print("no");
  << Set("a", Num(0)),
     Instruction_While(Bin(Bin(Num(1), "Divide", Id("a")), "LessThan", Num(1)),
       <<Instruction_Print(Str(<<"n", "o">>))>>),
     Instruction_Print(Str(<<"n", "o">>)) >>,
  \* a = 5; if (true) { if ((a %= 0) == 0) { print("no"); } } print(a);
  << Set("a", Num(5)),
     Instruction_If(True,
       <<Instruction_If(Bin(Bin(Id("a"), "ModuloAssign", Num(0)), "Equal", Num(0)),
           <<Instruction_Print(Str(<<"n", "o">>))>>)>>),
     Instruction_Print(Id("a")) >>
>>

\* The instructions the generated lists are made of
Pool == <<
  \* a = 1;
  Set("a", Num(1)),
  \* if (a == 1) { b = 3; a = 2; }
  Instruction_If(Bin(Id("a"), "Equal", Num(1)), <<Set("b", Num(3)), Set("a", Num(2))>>),
  \* if (true) { print("t"); }
  Instruction_If(True, <<Instruction_Print(Str(<<"t">>))>>),
  \* if (false) { print("t"); }
  Instruction_If(False, <<Instruction_Print(Str(<<"t">>))>>),
  \* else { print("e"); }
  Instruction_Else(<<Instruction_Print(Str(<<"e">>))>>),
  \* print(a);
  Instruction_Print(Id("a")),
  \* if (1) { print("t"); }
  Instruction_If(Num(1), <<Instruction_Print(Str(<<"t">>))>>),
  \* break;
  Instruction_Break
>>

\* every list of 1..MaxProgLen positions of Pool
Generated == UNION {[1..n -> 1..Len(Pool)] : n \in 1..MaxProgLen}

\* the programs: the written ones (written: the position in Written) and the generated
\* lists (list: the positions in Pool), each generated list run at top level and as
\* the block of an `if (true)` (scoped)
Programs ==
  {[written |-> k, list |-> <<>>, scoped |-> FALSE] : k \in 1..Len(Written)}
    \cup {[written |-> 0, list |-> g, scoped |-> s] : g \in Generated, s \in BOOLEAN}

\* the Vec<Instruction> of program p
InstructionsOf(p) ==
  IF p.written > 0 THEN Written[p.written]
  ELSE LET g == [i \in 1..Len(p.list) |-> Pool[p.list[i]]]
       IN IF p.scoped THEN <<Instruction_If(True, g)>> ELSE g
\* the Vec<Instruction> handed to interpret
Program == InstructionsOf(prog)

Names == {"a", "b", "c", "i", "x"}

----------------------------------------------------------------------------
(* The execution engine as a state machine.                                 *)
(*                                                                          *)
(* calls holds one record per active VM::execute_new_instructions call,     *)
(* the innermost last.  Of each record, `path` (where the call's            *)
(* `instructions` argument lies in the program: the positions, from the top *)
(* level down, of the instructions whose blocks enclose it), `pc` (the for  *)
(* loop's position), `should_execute_else` and `in_while` (the for loop is  *)
(* inside the While arm's own loop) are the state of StackFrame::run; the   *)
(* other fields record history for the properties: `base` is the length of  *)
(* VM.stack when the call was made, `broke` that the for loop was left by   *)
(* Break, `if_result` the outcome of the last If the list executed.         *)

NewCall(path, base) ==
  [path |-> path, pc |-> 1, should_execute_else |-> "None",
   in_while |-> FALSE, broke |-> FALSE, base |-> base, if_result |-> "none"]

RECURSIVE Descend(_, _)
Descend(instructions, path) ==
  IF path = <<>> THEN instructions
  ELSE Descend(instructions[Head(path)].instructions, Tail(path))
\* the `instructions` argument of call c
List(c) == Descend(Program, c.path)

Top == Len(calls)
Cur == calls[Top]
InRun == status = "running" /\ calls # <<>>
Running == InRun /\ Cur.pc <= Len(List(Cur))
Instr == List(Cur)[Cur.pc]
At(op) == Running /\ Instr.op = op

\* a variant of the head of the for loop's body that never clears the flag
Tick_never_cleared(should_execute_else) ==
  CASE should_execute_else = "None" -> "None"
    [] should_execute_else = "Some(false)" -> "Some(false)"
    [] should_execute_else = "Some(true)" -> "Some(false)"

\* the head of the for loop's body, interpreter.rs lines 42-48
Tick(should_execute_else) ==
  CASE should_execute_else = "None" -> "None"
    [] should_execute_else = "Some(false)" -> "None"
    [] should_execute_else = "Some(true)" -> "Some(false)"
\* should_execute_else when the match is reached: the head runs once per instruction,
\* not once per iteration of the While arm's loop
Ticked == IF Cur.in_while THEN Cur.should_execute_else ELSE Tick(Cur.should_execute_else)

\* the for loop moves on to the next instruction
Continue(should_execute_else) ==
  [Cur EXCEPT !.pc = @ + 1, !.should_execute_else = should_execute_else, !.in_while = FALSE]

\* VM::execute_new_instructions up to the call of run: the frame is inserted at index 0
Enter(caller, path, st) ==
  /\ stack' = <<StackFrame_empty>> \o st
  /\ calls' = Append(caller, NewCall(path, Len(st)))
\* where the block of the instruction the for loop is at lies
Block == Append(Cur.path, Cur.pc)

\* a variant of Raise in which a panic is an error like the others
Raise_panic_is_error(err, st) ==
  /\ stack' = st
  /\ error' = err
  /\ status' = "unwinding"
  /\ UNCHANGED <<prog, calls, out>>

\* `?` on an Err, `unwrap` on an Err, or a panic inside evaluate_value
Raise(err, st) ==
  /\ stack' = st
  /\ error' = err
  /\ status' = IF err.kind = "Panic" THEN "aborted" ELSE "unwinding"
  /\ UNCHANGED <<prog, calls, out>>

\* the stdin lines read_line may deliver (<<>>: end of input)
InputLines == {<<>>, <<"7", "\n">>, <<" ", "h", "i", " ", "\r", "\n">>}

\* interpret: VM::new() and the first execute_new_instructions
Interpret ==
  /\ status = "new"
  /\ status' = "running"
  /\ Enter(<<>>, <<>>, stack)
  /\ UNCHANGED <<prog, out, error>>
  /\ UNCHANGED <<input_tokens, parsed, input_value, evaluated, overflow_checks, input_text, tokenized>>

\* a variant of the Break arm that goes on with the next instruction of the list
StepBreak_continues ==
  /\ At("Break")
  /\ calls' = [calls EXCEPT ![Top] = Continue(Ticked)]
  /\ UNCHANGED <<prog, stack, out, status, error>>
  /\ UNCHANGED <<input_tokens, parsed, input_value, evaluated, overflow_checks, input_text, tokenized>>

\* Instruction::Break => break
StepBreak ==
  /\ At("Break")
  /\ calls' = [calls EXCEPT ![Top] =
                 [Cur EXCEPT !.pc = Len(List(Cur)) + 1, !.broke = TRUE,
                             !.should_execute_else = Ticked]]
  /\ UNCHANGED <<prog, stack, out, status, error>>
  /\ UNCHANGED <<input_tokens, parsed, input_value, evaluated, overflow_checks, input_text, tokenized>>

\* Instruction::Value: `let _ = self.evaluate_value(&value, vm).unwrap()`
StepValue ==
  /\ At("Value")
  /\ LET r == evaluate_value(Instr.value, stack)
     IN IF r.err = NoError
          THEN /\ stack' = r.stack
               /\ calls' = [calls EXCEPT ![Top] = Continue(Ticked)]
               /\ UNCHANGED <<prog, out, status, error>>
          ELSE /\ stack' = r.stack
               /\ error' = r.err
               /\ status' = "aborted"
               /\ UNCHANGED <<prog, calls, out>>
  /\ UNCHANGED <<input_tokens, parsed, input_value, evaluated, overflow_checks, input_text, tokenized>>

\* a variant of the If arm that takes a condition that is no Boolean for false
StepIf_non_boolean_is_false ==
  /\ At("If")
  /\ LET r == evaluate_value(Instr.condition, stack)
     IN IF r.err # NoError THEN Raise(r.err, r.stack)
        ELSE IF r.data.kind = "Boolean" /\ r.data.b
          THEN /\ Enter([calls EXCEPT ![Top] = [Continue(Ticked) EXCEPT !.if_result = "true"]],
                        Block, r.stack)
               /\ UNCHANGED <<prog, out, status, error>>
        ELSE /\ stack' = r.stack
             /\ calls' = [calls EXCEPT ![Top] = [Continue("Some(true)") EXCEPT !.if_result = "false"]]
             /\ UNCHANGED <<prog, out, status, error>>
  /\ UNCHANGED <<input_tokens, parsed, input_value, evaluated, overflow_checks, input_text, tokenized>>

\* Instruction::If
StepIf ==
  /\ At("If")
  /\ LET r == evaluate_value(Instr.condition, stack)
     IN IF r.err # NoError THEN Raise(r.err, r.stack)
        ELSE IF r.data.kind # "Boolean"
          THEN Raise(TypeMismatch("Expected boolean for if condition"), r.stack)
        ELSE IF r.data.b
          THEN /\ Enter([calls EXCEPT ![Top] = [Continue(Ticked) EXCEPT !.if_result = "true"]],
                        Block, r.stack)
               /\ UNCHANGED <<prog, out, status, error>>
        ELSE /\ stack' = r.stack
             /\ calls' = [calls EXCEPT ![Top] = [Continue("Some(true)") EXCEPT !.if_result = "false"]]
             /\ UNCHANGED <<prog, out, status, error>>
  /\ UNCHANGED <<input_tokens, parsed, input_value, evaluated, overflow_checks, input_text, tokenized>>

\* Instruction::Else
StepElse ==
  /\ At("Else")
  /\ IF Ticked # "None"
       THEN Enter([calls EXCEPT ![Top] = Continue(Ticked)], Block, stack)
       ELSE /\ calls' = [calls EXCEPT ![Top] = Continue(Ticked)]
            /\ UNCHANGED stack
  /\ UNCHANGED <<prog, out, status, error>>
  /\ UNCHANGED <<input_tokens, parsed, input_value, evaluated, overflow_checks, input_text, tokenized>>

\* a variant of the While arm that runs its block at most once, as an If does
StepWhile_once ==
  /\ At("While")
  /\ LET r == evaluate_value(Instr.condition, stack)
     IN IF r.err # NoError THEN Raise(r.err, r.stack)
        ELSE IF r.data.kind # "Boolean"
          THEN Raise(TypeMismatch("Expected boolean for if condition"), r.stack)
        ELSE IF r.data.b
          THEN /\ Enter([calls EXCEPT ![Top] = Continue(Ticked)], Block, r.stack)
               /\ UNCHANGED <<prog, out, status, error>>
        ELSE /\ stack' = r.stack
             /\ calls' = [calls EXCEPT ![Top] = Continue(Ticked)]
             /\ UNCHANGED <<prog, out, status, error>>
  /\ UNCHANGED <<input_tokens, parsed, input_value, evaluated, overflow_checks, input_text, tokenized>>

\* Instruction::While: one evaluation of the condition and, when it holds, the call
\* of the body; the for loop stays at the While until the condition fails
StepWhile ==
  /\ At("While")
  /\ LET r == evaluate_value(Instr.condition, stack)
     IN IF r.err # NoError THEN Raise(r.err, r.stack)
        ELSE IF r.data.kind # "Boolean"
          THEN Raise(TypeMismatch("Expected boolean for if condition"), r.stack)
        ELSE IF r.data.b
          THEN /\ Enter([calls EXCEPT ![Top] =
                           [Cur EXCEPT !.should_execute_else = Ticked, !.in_while = TRUE]],
                        Block, r.stack)
               /\ UNCHANGED <<prog, out, status, error>>
        ELSE /\ stack' = r.stack
             /\ calls' = [calls EXCEPT ![Top] = Continue(Ticked)]
             /\ UNCHANGED <<prog, out, status, error>>
  /\ UNCHANGED <<input_tokens, parsed, input_value, evaluated, overflow_checks, input_text, tokenized>>

\* Instruction::Scope
StepScope ==
  /\ At("Scope")
  /\ Enter([calls EXCEPT ![Top] = Continue(Ticked)], Block, stack)
  /\ UNCHANGED <<prog, out, status, error>>
  /\ UNCHANGED <<input_tokens, parsed, input_value, evaluated, overflow_checks, input_text, tokenized>>

\* Instruction::Print
StepPrint ==
  /\ At("Print")
  /\ LET r == evaluate_value(Instr.value, stack)
     IN IF r.err # NoError THEN Raise(r.err, r.stack)
        ELSE /\ stack' = r.stack
             /\ out' = Append(out, Data_to_string(r.data))
             /\ calls' = [calls EXCEPT ![Top] = Continue(Ticked)]
             /\ UNCHANGED <<prog, status, error>>
  /\ UNCHANGED <<input_tokens, parsed, input_value, evaluated, overflow_checks, input_text, tokenized>>

\* Instruction::Input
StepInput ==
  /\ At("Input")
  /\ \E line \in InputLines :
       LET r == VM_assign_variable(stack, Instr.variable, String(trim(line)))
       IN IF r.err # NoError THEN Raise(r.err, r.stack)
          ELSE /\ stack' = r.stack
               /\ calls' = [calls EXCEPT ![Top] = Continue(Ticked)]
               /\ UNCHANGED <<prog, out, status, error>>
  /\ UNCHANGED <<input_tokens, parsed, input_value, evaluated, overflow_checks, input_text, tokenized>>

\* a variant of Return in which execute_new_instructions leaves its frame on the stack
Return_keeps_frame ==
  /\ InRun
  /\ Cur.pc > Len(List(Cur))
  /\ stack' = stack
  /\ calls' = SubSeq(calls, 1, Top - 1)
  /\ status' = IF Top = 1 THEN "returned" ELSE "running"
  /\ UNCHANGED <<prog, out, error>>
  /\ UNCHANGED <<input_tokens, parsed, input_value, evaluated, overflow_checks, input_text, tokenized>>


\* run returns Ok(()) (the list is exhausted or was left by Break), and
\* execute_new_instructions removes the frame at index 0 and returns Ok(()).
\* The outermost call returning makes interpret return Ok(()).
Return ==
  /\ InRun
  /\ Cur.pc > Len(List(Cur))
  /\ stack' = Tail(stack)
  /\ calls' = SubSeq(calls, 1, Top - 1)
  /\ status' = IF Top = 1 THEN "returned" ELSE "running"
  /\ UNCHANGED <<prog, out, error>>
  /\ UNCHANGED <<input_tokens, parsed, input_value, evaluated, overflow_checks, input_text, tokenized>>

\* run returns Err(e), and the `?` of execute_new_instructions (line 529) returns it
\* at once: line 531 is not reached.  The outermost call returning makes interpret
\* return Err(e).
Propagate ==
  /\ status = "unwinding"
  /\ calls # <<>>
  /\ calls' = SubSeq(calls, 1, Top - 1)
  /\ status' = IF Top = 1 THEN "returned" ELSE "unwinding"
  /\ UNCHANGED <<prog, stack, out, error>>
  /\ UNCHANGED <<input_tokens, parsed, input_value, evaluated, overflow_checks, input_text, tokenized>>

----------------------------------------------------------------------------

Init ==
  /\ prog \in Programs
  /\ stack = <<>>
  /\ calls = <<>>
  /\ out = <<>>
  /\ status = "new"
  /\ error = NoError
  /\ input_tokens = <<>>
  /\ parsed = <<>>
  /\ input_value = <<>>
  /\ evaluated = <<>>
  /\ overflow_checks \in BOOLEAN
  /\ input_text = <<>>
  /\ tokenized = <<>>

Next ==
  \/ Interpret
  \/ StepBreak
  \/ StepValue
  \/ StepIf
  \/ StepElse
  \/ StepWhile
  \/ StepScope
  \/ StepPrint
  \/ StepInput
  \/ Return
  \/ Propagate

Spec == Init /\ [][Next]_vars

----------------------------------------------------------------------------
(* parse on its own: the token streams it is handed, and the call.          *)

\* the most operands of a generated expression, the longest generated stream
MaxOperands == 3
MaxTokens == 4

tNum(n) == Token_Number(Integer(n))
tId(name) == Token_Identifier(name)
tStr(s) == Token_String(s)
tOp(operator) == Token_Operator(operator)
tKw(keyword) == Token_Keyword(keyword)
tEnd == Token_EndStatement
tBO == Token_BracketOpen
tBC == Token_BracketClose
tSO == Token_ScopeOpen
tSC == Token_ScopeClose

\* Token streams written out, each under its source text
WrittenStreams == <<
  \* 10 - 3 - 2;
  << tNum(10), tOp("Subtract"), tNum(3), tOp("Subtract"), tNum(2), tEnd >>,
  \* print(10 - 3 - 2);
  << tKw("Print"), tBO, tNum(10), tOp("Subtract"), tNum(3), tOp("Subtract"), tNum(2), tBC, tEnd >>,
  \* print(2 * 3 + 4);
  << tKw("Print"), tBO, tNum(2), tOp("Multiply"), tNum(3), tOp("Add"), tNum(4), tBC, tEnd >>,
  \* print((10 - 3) - 2);
  << tKw("Print"), tBO, tBO, tNum(10), tOp("Subtract"), tNum(3), tBC, tOp("Subtract"), tNum(2), tBC, tEnd >>,
  \* print(((2 + 3)));
  << tKw("Print"), tBO, tBO, tBO, tNum(2), tOp("Add"), tNum(3), tBC, tBC, tBC, tEnd >>,
  \* print((a = 2) * (3 + a));
  << tKw("Print"), tBO, tBO, tId("a"), tOp("Assign"), tNum(2), tBC, tOp("Multiply"),
     tBO, tNum(3), tOp("Add"), tId("a"), tBC, tBC, tEnd >>,
  \* if ((1 + 5) > (1 * 2)) { print("x"); }
  << tKw("If"), tBO, tBO, tNum(1), tOp("Add"), tNum(5), tBC, tOp("GreaterThan"),
     tBO, tNum(1), tOp("Multiply"), tNum(2), tBC, tBC,
     tSO, tKw("Print"), tBO, tStr(<<"x">>), tBC, tEnd, tSC >>,
  \* while (a < 2) { a += 1; if (a == 1) { break; } }
  << tKw("While"), tBO, tId("a"), tOp("LessThan"), tNum(2), tBC,
     tSO, tId("a"), tOp("AddAssign"), tNum(1), tEnd,
          tKw("If"), tBO, tId("a"), tOp("Equal"), tNum(1), tBC, tSO, tKw("Break"), tEnd, tSC, tSC >>,
  \* if (true) { if (false) { } else { a = 1; } } print(a);
  << tKw("If"), tBO, Token_Boolean(TRUE), tBC,
     tSO, tKw("If"), tBO, Token_Boolean(FALSE), tBC, tSO, tSC,
          tKw("Else"), tSO, tId("a"), tOp("Assign"), tNum(1), tEnd, tSC, tSC,
     tKw("Print"), tBO, tId("a"), tBC, tEnd >>,
  \* if (true) { print(1);
  << tKw("If"), tBO, Token_Boolean(TRUE), tBC, tSO, tKw("Print"), tBO, tNum(1), tBC, tEnd >>,
  \* if (true) { if (true) { print(1); }
  << tKw("If"), tBO, Token_Boolean(TRUE), tBC,
     tSO, tKw("If"), tBO, Token_Boolean(TRUE), tBC, tSO, tKw("Print"), tBO, tNum(1), tBC, tEnd, tSC >>,
  \* print((1 + 2);
  << tKw("Print"), tBO, tBO, tNum(1), tOp("Add"), tNum(2), tBC, tEnd >>,
  \* a = (1;
  << tId("a"), tOp("Assign"), tBO, tNum(1), tEnd >>,
  \* if (true { print(1); }
  << tKw("If"), tBO, Token_Boolean(TRUE), tSO, tKw("Print"), tBO, tNum(1), tBC, tEnd, tSC >>,
  \* while (true) { print(1; }
  << tKw("While"), tBO, Token_Boolean(TRUE), tBC, tSO, tKw("Print"), tBO, tNum(1), tEnd, tSC >>,
  \* print(1));
  << tKw("Print"), tBO, tNum(1), tBC, tBC, tEnd >>,
  \* input x; print(x);
  << tKw("Input"), tId("x"), tEnd, tKw("Print"), tBO, tId("x"), tBC, tEnd >>,
  \* # c # a = 1;
  << Token_Comment(<<" ", "c", " ">>), tId("a"), tOp("Assign"), tNum(1), tEnd >>,
  \* a = 1 + # c # 2;
  << tId("a"), tOp("Assign"), tNum(1), tOp("Add"), Token_Comment(<<" ", "c", " ">>), tNum(2), tEnd >>,
  \* print(true !);
  << tKw("Print"), tBO, Token_Boolean(TRUE), tOp("Not"), tBC, tEnd >>,
  \* print(!true);
  << tKw("Print"), tBO, tOp("Not"), Token_Boolean(TRUE), tBC, tEnd >>,
  \* { b = 3; } print(b);
  << tSO, tId("b"), tOp("Assign"), tNum(3), tEnd, tSC, tKw("Print"), tBO, tId("b"), tBC, tEnd >>,
  \* 1 = 2;
  << tNum(1), tOp("Assign"), tNum(2), tEnd >>,
  \* else { print("e"); }
  << tKw("Else"), tSO, tKw("Print"), tBO, tStr(<<"e">>), tBC, tEnd, tSC >>,
  \* print(1 + );
  << tKw("Print"), tBO, tNum(1), tOp("Add"), tBC, tEnd >>,
  \* print();
  << tKw("Print"), tBO, tBC, tEnd >>,
  \* print(1 2);
  << tKw("Print"), tBO, tNum(1), tNum(2), tBC, tEnd >>,
  \* if (true) { print("}"); }
  << tKw("If"), tBO, Token_Boolean(TRUE), tBC, tSO, tKw("Print"), tBO, tStr(<<"}">>), tBC, tEnd, tSC >>,
  \* input 1;
  << tKw("Input"), tNum(1), tEnd >>,
  \* if (true # c #) { print(1); }
  << tKw("If"), tBO, Token_Boolean(TRUE), Token_Comment(<<" ", "c", " ">>), tBC,
     tSO, tKw("Print"), tBO, tNum(1), tBC, tEnd, tSC >>,
  \* print(1); # c # if (true) { # d # print(2); }
  << tKw("Print"), tBO, tNum(1), tBC, tEnd, Token_Comment(<<" ", "c", " ">>),
     tKw("If"), tBO, Token_Boolean(TRUE), tBC,
     tSO, Token_Comment(<<" ", "d", " ">>), tKw("Print"), tBO, tNum(2), tBC, tEnd, tSC >>,
  \* print(1); { print(2); }
  << tKw("Print"), tBO, tNum(1), tBC, tEnd, tSO, tKw("Print"), tBO, tNum(2), tBC, tEnd, tSC >>,
  \* if (true) { { print(1); } }
  << tKw("If"), tBO, Token_Boolean(TRUE), tBC,
     tSO, tSO, tKw("Print"), tBO, tNum(1), tBC, tEnd, tSC, tSC >>,
  \* while (true) { print(1); } } print(2);
  << tKw("While"), tBO, Token_Boolean(TRUE), tBC, tSO, tKw("Print"), tBO, tNum(1), tBC, tEnd, tSC,
     tSC, tKw("Print"), tBO, tNum(2), tBC, tEnd >>
>>

\* the operators the tokenizer's Operator enum has for two operands
BinaryOperators == Arithmetic \cup Ordering \cup Compound \cup {"Equal", "NotEqual", "And", "Or", "Assign"}
\* the operands and operators of the generated expressions
SpanOperands == {tNum(10), tNum(3), tId("a")}
SpanOperators == {"Subtract", "Multiply", "LessThan", "Assign", "AddAssign"}

\* o1 op1 o2 ... on as tokens
Interleave(operands, operators) ==
  [i \in 1..(2 * Len(operands) - 1) |->
     IF i % 2 = 1 THEN operands[(i + 1) \div 2] ELSE tOp(operators[i \div 2])]
\* every o1 op1 ... on of 1..MaxOperands operands, and 10 op1 3 [op2 2] for every pair of
\* binary operators
Spans ==
  UNION {{Interleave(os, ps) : os \in [1..n -> SpanOperands], ps \in [1..(n - 1) -> SpanOperators]}
           : n \in 1..MaxOperands}
    \cup {Interleave(<<tNum(10), tNum(3)>>, <<p>>) : p \in BinaryOperators}
    \cup {Interleave(<<tNum(10), tNum(3), tNum(2)>>, <<p, q>>) : p, q \in BinaryOperators}

\* the tokens of the generated streams
StreamTokens == {tBO, tBC, tSO, tSC, tKw("Print"), tKw("If"), tNum(1), tEnd}
GeneratedStreams == UNION {[1..n -> StreamTokens] : n \in 0..MaxTokens}

\* the token streams parse is handed: the written ones, every generated expression
\* as a statement `X;` and as `print(X);`, and every generated stream
TokenStreams ==
  {WrittenStreams[k] : k \in 1..Len(WrittenStreams)}
    \cup {x \o <<tEnd>> : x \in Spans}
    \cup {<<tKw("Print"), tBO>> \o x \o <<tBC, tEnd>> : x \in Spans}
    \cup GeneratedStreams

\* the variables of interpret, at rest while parse or evaluate_value runs on its own
NoProgram == [written |-> 0, list |-> <<>>, scoped |-> FALSE]

ParseInit ==
  /\ input_tokens \in TokenStreams
  /\ parsed = <<>>
  /\ prog = NoProgram
  /\ stack = <<>>
  /\ calls = <<>>
  /\ out = <<>>
  /\ status = "new"
  /\ error = NoError
  /\ input_value = <<>>
  /\ evaluated = <<>>
  /\ overflow_checks \in BOOLEAN
  /\ input_text = <<>>
  /\ tokenized = <<>>

\* parser::parse(tokens)
Parse ==
  /\ parsed = <<>>
  /\ parsed' = <<parse(input_tokens)>>
  /\ UNCHANGED <<prog, stack, calls, out, status, error, input_tokens, input_value,
                 evaluated, overflow_checks, input_text, tokenized>>

ParseNext == Parse

ParseSpec == ParseInit /\ [][ParseNext]_vars

----------------------------------------------------------------------------
(* evaluate_value on its own: the Values and frame stacks it is handed, and *)
(* the call.                                                                *)

\* frame stacks as execute_new_instructions leaves them: at least one frame, and no
\* name bound in two frames
FrameStacks ==
  { <<StackFrame_empty>>,
    <<Insert(StackFrame_empty, "a", Integer(7))>>,
    <<StackFrame_empty, Insert(Insert(StackFrame_empty, "a", Integer(7)), "b", Float(1, 2))>>,
    <<Insert(StackFrame_empty, "b", String(<<"s">>)), Insert(StackFrame_empty, "a", String(<<"x">>))>>,
    <<Insert(StackFrame_empty, "a", Boolean(TRUE)), StackFrame_empty>>,
    <<Insert(StackFrame_empty, "a", Integer(i64_MAX))>> }

\* 0.0 / 0.0 (NaN) and 1.0 / 0.0 (inf), which no literal denotes
NaNValue == Bin(VNumber(Float(0, 1)), "Divide", VNumber(Float(0, 1)))
InfValue == Bin(VNumber(Float(1, 1)), "Divide", VNumber(Float(0, 1)))
IntegerOperands == {Num(n) : n \in {i64_MIN, -7, -1, 0, 2, 3, i64_MAX}}
FloatOperands == {Half, VNumber(Float(3, 1)), VNumber(Float(-5, 2)), VNumber(Float(0, 1)), NaNValue, InfValue}
OtherOperands == {Str(<<>>), Str(<<"1">>), Str(<<"a", "b">>), True, False}
Operands == IntegerOperands \cup FloatOperands \cup OtherOperands
\* the right operands of Exponent: f64::powf is modelled for integral exponents
Exponents == {Num(-1), Num(0), Num(2), Num(3), VNumber(Float(3, 1)), Str(<<"1">>), True}
\* the divisors of the division table
Divisors == {i64_MIN, -7, -2, -1, 0, 1, 2, 3, i64_MAX}

\* the operators whose two operands are both evaluated
ValueOperators == BinaryOperators \ (Compound \cup {"Assign"})
\* expressions over operands that read no variable
ClosedExprs ==
  {Bin(l, operator, r) : l \in Operands, r \in Operands, operator \in ValueOperators \ {"Exponent"}}
    \cup {Bin(l, "Exponent", r) : l \in Operands, r \in Exponents}
    \cup {Not(l) : l \in Operands}
    \cup {Bin(Num(1), operator, Str(<<"1">>)) : operator \in {"Equal", "NotEqual"}}
    \cup {Bin(Num(a), operator, Num(b)) :
            a \in i64_MIN..i64_MAX, b \in Divisors, operator \in {"Divide", "Modulo"}}

\* the left and right operands of the assignments
Targets ==
  {Id("a"), Id("c"), Num(1), Str(<<"a">>), True, Bin(Id("a"), "Add", Num(1)), Paren(Id("a")),
   Bin(Id("a"), "Assign", Num(5))}
Rights ==
  {Num(2), Num(0), Half, Str(<<"s">>), True, Id("a"), Id("b"), Id("c"),
   Bin(Id("a"), "Assign", Num(5)), Bin(Id("c"), "Assign", Num(1)), Num(i64_MAX)}
\* `t = r`, `t op= r`, and `n = n op r`
AssignExprs ==
  {Bin(t, operator, r) : t \in Targets, r \in Rights, operator \in Compound \cup {"Assign"}}
    \cup {Bin(Id(n), "Assign", Bin(Id(n), CompoundOperator(operator), r)) :
            n \in {"a", "c"}, r \in Rights, operator \in Compound}

EvalInputs ==
  {[value |-> v, stack |-> <<StackFrame_empty>>] : v \in ClosedExprs}
    \cup {[value |-> v, stack |-> st] : v \in AssignExprs, st \in FrameStacks}

EvalInit ==
  /\ \E in \in EvalInputs : input_value = <<in.value>> /\ stack = in.stack
  /\ evaluated = <<>>
  /\ error = NoError
  /\ prog = NoProgram
  /\ calls = <<>>
  /\ out = <<>>
  /\ status = "new"
  /\ input_tokens = <<>>
  /\ parsed = <<>>
  /\ overflow_checks \in BOOLEAN
  /\ input_text = <<>>
  /\ tokenized = <<>>

\* frame.evaluate_value(&value, &mut vm)
Evaluate ==
  /\ input_value # <<>>
  /\ evaluated = <<>>
  /\ LET r == evaluate_value(input_value[1], stack)
     IN /\ stack' = r.stack
        /\ evaluated' = <<r.data>>
        /\ error' = r.err
  /\ UNCHANGED <<prog, calls, out, status, input_tokens, parsed, input_value, overflow_checks, input_text, tokenized>>

EvalNext == Evaluate

EvalSpec == EvalInit /\ [][EvalNext]_vars

----------------------------------------------------------------------------
(* Properties.                                                              *)

\* name is bound in some frame of st
Bound(st, name) == \E i \in 1..Len(st) : name \in DOMAIN st[i]
\* the frames of st that bind name
Binders(st, name) == {i \in 1..Len(st) : name \in DOMAIN st[i]}
MinOf(S) == CHOOSE x \in S : \A y \in S : x <= y
\* the k-th frame counted from the outermost one (the last of the Vec): the frames a
\* step keeps stay at the same distance from the outermost frame
FromBottom(st, k) == st[Len(st) - k + 1]
\* the call that called the innermost one
Caller == calls[Top - 1]

RECURSIVE SubValues(_)
SubValues(v) ==
  {v} \cup (IF v.left = <<>> THEN {} ELSE SubValues(v.left[1]))
      \cup (IF v.right = <<>> THEN {} ELSE SubValues(v.right[1]))
RECURSIVE ValuesOf(_)
ValuesOf(instructions) ==
  UNION { (IF instructions[i].condition.t = "None" THEN {} ELSE SubValues(instructions[i].condition))
          \cup (IF instructions[i].value.t = "None" THEN {} ELSE SubValues(instructions[i].value))
          \cup ValuesOf(instructions[i].instructions) : i \in 1..Len(instructions) }

\* C1: every call of VM::execute_new_instructions leaves the frame stack with the length
\* it had before the call, on every exit path (fall-through, Break, propagated error).
C1_StackRestoredOnEveryExit ==
  [][Len(calls') < Len(calls) => Len(stack') = Cur.base]_vars

\* C2: an assignment (plain, compound or Input) to a name bound in no frame creates the
\* binding in the outermost frame, the last of the Vec.
C2_NewBindingIsGlobal ==
  [][\A n \in Names :
       (~Bound(stack, n) /\ Bound(stack', n)) => n \in DOMAIN stack'[Len(stack')]]_vars

\* C3: a step never moves or duplicates a binding: a name bound in a frame stays bound in
\* that frame and in no other frame; and an assignment `n = rhs` or `input n` to a bound
\* name n leaves the assigned value in the frame that bound n.
C3_AssignExistingInPlace ==
  [][/\ \A n \in Names : \A k \in 1..Len(stack) :
          (n \in DOMAIN FromBottom(stack, k) /\ k <= Len(stack'))
            => /\ n \in DOMAIN FromBottom(stack', k)
               /\ \A j \in 1..Len(stack') : j # k => n \notin DOMAIN FromBottom(stack', j)
     /\ (At("Value") /\ Instr.value.operator = "Assign" /\ Instr.value.right # <<>>
           /\ Instr.value.left[1].t = "Identifier" /\ Bound(stack, Instr.value.left[1].name)
           /\ status' = "running")
          => LET n == Instr.value.left[1].name
                 k == Len(stack) - MinOf(Binders(stack, n)) + 1
             IN FromBottom(stack', k)[n] = evaluate_value(Instr.value.right[1], stack).data
     /\ (At("Input") /\ Bound(stack, Instr.variable))
          => LET n == Instr.variable
                 k == Len(stack) - MinOf(Binders(stack, n)) + 1
             IN \E line \in InputLines : FromBottom(stack', k)[n] = String(trim(line))
    ]_vars

\* C3 witness: two blocks deep, `a = 2` has just overwritten the a of the outermost frame
C3_Witness ==
  /\ InRun /\ Len(stack) = 3 /\ Cur.pc = 2
  /\ List(Cur)[1] = Set("a", Num(2))
  /\ "a" \in DOMAIN stack[3] /\ stack[3]["a"] = Integer(2)
  /\ "a" \notin DOMAIN stack[1] /\ "a" \notin DOMAIN stack[2]

\* C4: reading an identifier yields the binding of the innermost frame that binds it
\* (frames searched from stack[1], the innermost, outwards); when no frame binds it the
\* read fails with VariableNotDefined naming it; the read leaves every frame as it was.
C4_ReadResolution ==
  \A n \in Names :
    LET r == evaluate_value(VIdentifier(n), stack)
        hits == Binders(stack, n)
    IN /\ r.stack = stack
       /\ IF hits = {}
            THEN r.err = VariableNotDefined(n) /\ r.data = NoData
            ELSE r.err = NoError /\ r.data = stack[MinOf(hits)][n]

\* C4 witness: `print(c);` has failed with VariableNotDefined("c") and interpret returned
C4_Witness ==
  /\ status = "returned" /\ error = VariableNotDefined("c")
  /\ Program[1] = Instruction_Print(Id("c")) /\ out = <<>>
  /\ ~Bound(stack, "c")

\* C5: a runtime error raised by any instruction is returned by interpret as an Err:
\* once a VariableNotDefined or TypeMismatch has been raised, interpret is unwinding or
\* has returned it.
C5_RuntimeErrorIsReturned ==
  error.kind \in {"VariableNotDefined", "TypeMismatch"} => status \in {"unwinding", "returned"}

\* C6: when the body of a While has been left by a Break, the While ends: the enclosing
\* list goes on with the instruction after the While.
C6_BreakEndsWhile ==
  [][(InRun /\ Top > 1 /\ Cur.broke /\ Caller.in_while /\ Len(calls') < Len(calls))
       => (calls'[Top - 1].pc = Caller.pc + 1 /\ ~calls'[Top - 1].in_while)]_vars

\* C7: an Else runs its block (in a new empty frame) if and only if the instruction just
\* before it in the same list is an If whose condition evaluated to false; otherwise it
\* changes nothing and the list goes on.
C7_ElseIffPrecedingIfFalse ==
  [][At("Else") =>
       IF Cur.pc > 1 /\ List(Cur)[Cur.pc - 1].op = "If" /\ Cur.if_result = "false"
         THEN /\ Len(calls') = Top + 1
              /\ calls'[Top + 1].path = Append(Cur.path, Cur.pc)
              /\ calls'[Top + 1].pc = 1
              /\ stack' = <<StackFrame_empty>> \o stack
         ELSE /\ Len(calls') = Top
              /\ calls'[Top].pc = Cur.pc + 1
              /\ stack' = stack /\ out' = out /\ status' = status]_vars

\* C7 witness: the block of an Else that follows a false If has been entered
C7_Witness ==
  /\ InRun /\ Top >= 2 /\ Cur.pc = 1
  /\ Caller.pc > 2
  /\ List(Caller)[Caller.pc - 1].op = "Else"
  /\ List(Caller)[Caller.pc - 2].op = "If"
  /\ Caller.if_result = "false"
  /\ Cur.path = Append(Caller.path, Caller.pc - 1)

\* C8: at a While the condition is evaluated; if it yields true the block is entered in a
\* newly pushed empty frame and the list stays at the While, so that the condition is
\* evaluated again when the block returns; if it yields false no frame is pushed and the
\* list moves past the While.
C8_WhileIterates ==
  [][/\ At("While") =>
          LET r == evaluate_value(Instr.condition, stack)
          IN (r.err = NoError /\ r.data.kind = "Boolean") =>
               IF r.data.b
                 THEN /\ Len(calls') = Top + 1
                      /\ calls'[Top + 1].path = Append(Cur.path, Cur.pc)
                      /\ calls'[Top + 1].pc = 1
                      /\ calls'[Top].pc = Cur.pc
                      /\ stack' = <<StackFrame_empty>> \o r.stack
                 ELSE /\ Len(calls') = Top
                      /\ calls'[Top].pc = Cur.pc + 1
                      /\ stack' = r.stack
     /\ (InRun /\ Top > 1 /\ Caller.in_while /\ Len(calls') < Len(calls) /\ status' = "running")
          => /\ calls'[Top - 1].pc = Caller.pc
             /\ List(Caller)[Caller.pc].op = "While"
    ]_vars

\* C8 witness: the counting loop has printed 1 and entered its block a second time
C8_Witness ==
  /\ InRun /\ Top = 2 /\ calls[1].in_while /\ Cur.pc = 1
  /\ stack[1] = StackFrame_empty
  /\ out = << <<"1">> >>

\* C9: an If or While whose condition evaluates to a Number or a String raises
\* TypeMismatch, pushes no frame and enters no block; and once an error is raised nothing
\* runs any more (a following Else included): calls only return.
C9_NonBooleanCondition ==
  [][/\ (At("If") \/ At("While")) =>
          LET r == evaluate_value(Instr.condition, stack)
          IN (r.err = NoError /\ r.data.kind # "Boolean") =>
               /\ status' = "unwinding"
               /\ error'.kind = "TypeMismatch"
               /\ calls' = calls
               /\ stack' = r.stack
               /\ out' = out
     /\ status = "unwinding" =>
          /\ Len(calls') < Len(calls)
          /\ stack' = stack /\ out' = out /\ error' = error
          /\ status' \in {"unwinding", "returned"}
    ]_vars

\* C9 witness: an If with a Number condition, followed by an Else, has raised TypeMismatch
C9_Witness ==
  /\ status = "unwinding" /\ calls # <<>>
  /\ error = TypeMismatch("Expected boolean for if condition")
  /\ Cur.pc < Len(List(Cur))
  /\ List(Cur)[Cur.pc].op = "If"
  /\ List(Cur)[Cur.pc + 1].op = "Else"
  /\ Len(stack) = Top

\* the binary operators that evaluate both operands (all but the assignments, whose
\* left operand is a target)
BinaryExprs(instructions) ==
  {v \in ValuesOf(instructions) :
     v.t = "Expression" /\ v.right # <<>>
       /\ v.operator \notin ({"Not", "Brackets", "Assign"} \cup Compound)}

\* C10: a binary operator evaluates its left operand first and completely: when the left
\* operand fails, the result is that failure and the right operand has had no effect;
\* otherwise the right operand is evaluated in the frames the left operand left, for And
\* and Or too whatever the left operand is: its failure is the result, and its effects
\* on the frames are kept.
C10_LeftThenRight ==
  stack # <<>> =>
    \A e \in BinaryExprs(Program) :
      LET w == evaluate_value(e, stack)
          l == evaluate_value(e.left[1], stack)
      IN IF l.err # NoError THEN w = l
         ELSE LET r == evaluate_value(e.right[1], l.stack)
              IN IF r.err # NoError THEN w = r
                 ELSE /\ w.stack = r.stack
                      /\ w.err = Apply(e.operator, l.data, r.data).err
                      /\ w.data = Apply(e.operator, l.data, r.data).data

\* C10 witness: `print(false && (a = true));` has printed false and a is bound to true
C10_Witness ==
  /\ out = << <<"f", "a", "l", "s", "e">> >>
  /\ stack # <<>> /\ "a" \in DOMAIN stack[1] /\ stack[1]["a"] = Boolean(TRUE)
  /\ Program[1] = Instruction_Print(Bin(False, "And", Bin(Id("a"), "Assign", True)))

\* an operand token, and the Value it denotes
IsOperand(token) == token.t \in {"Identifier", "Number", "String", "Boolean"}
OperandValue(token) ==
  CASE token.t = "Identifier" -> VIdentifier(token.name)
    [] token.t = "Number" -> VNumber(token.lit)
    [] token.t = "String" -> VString(token.lit.s)
    [] token.t = "Boolean" -> VBoolean(token.lit.b)
\* ts is o1 op1 o2 ... on: operands and two-operand operators in turn, no brackets
IsSpan(ts) ==
  /\ Len(ts) % 2 = 1
  /\ \A i \in 1..Len(ts) :
       IF i % 2 = 1 THEN IsOperand(ts[i])
       ELSE ts[i].t = "Operator" /\ ts[i].name \in BinaryOperators
\* op1(o1, op2(o2, ... on))
RECURSIVE RightNested(_)
RightNested(ts) ==
  IF Len(ts) = 1 THEN OperandValue(ts[1])
  ELSE [t |-> "Expression", lit |-> NoLit, name |-> "", operator |-> ts[2].name,
        left |-> <<OperandValue(ts[1])>>, right |-> <<RightNested(SubSeq(ts, 3, Len(ts)))>>]
\* the stream is `print(X);`, and its X
IsPrintOf(ts) ==
  /\ Len(ts) >= 4
  /\ ts[1] = tKw("Print") /\ ts[2] = tBO /\ ts[Len(ts) - 1] = tBC /\ ts[Len(ts)] = tEnd
PrintArgument(ts) == SubSeq(ts, 3, Len(ts) - 2)
\* the stream is `X;`, and its X
IsStatementOf(ts) == Len(ts) >= 2 /\ ts[Len(ts)] = tEnd
StatementBody(ts) == SubSeq(ts, 1, Len(ts) - 1)

\* C11: parse_value applies no precedence: an unparenthesised o1 op1 o2 ... on parses,
\* as the argument of print and as a statement, to the right-nested tree
\* op1(o1, op2(o2, ...)) whatever the operators; `10 - 3 - 2` evaluates to 9 and
\* `2 * 3 + 4` to 14.
C11_RightNestedTree ==
  parsed # <<>> =>
    /\ (IsPrintOf(input_tokens) /\ IsSpan(PrintArgument(input_tokens)))
         => parsed[1] = ParseOk(<<Instruction_Print(RightNested(PrintArgument(input_tokens)))>>)
    /\ (IsStatementOf(input_tokens) /\ IsSpan(StatementBody(input_tokens)))
         => parsed[1] = ParseOk(<<Instruction_Value(RightNested(StatementBody(input_tokens)))>>)
    /\ input_tokens = WrittenStreams[2]
         => evaluate_value(parsed[1].instructions[1].value, <<StackFrame_empty>>).data = Integer(9)
    /\ input_tokens = WrittenStreams[3]
         => evaluate_value(parsed[1].instructions[1].value, <<StackFrame_empty>>).data = Integer(14)

\* C11 witness: `print(10 - 3 - 2);` has parsed to print(10 - (3 - 2))
C11_Witness ==
  /\ parsed # <<>>
  /\ input_tokens = WrittenStreams[2]
  /\ parsed[1].instructions =
       <<Instruction_Print(Bin(Num(10), "Subtract", Bin(Num(3), "Subtract", Num(2))))>>

\* `X` put between one more pair of brackets
Bracketed(ts) == <<tBO>> \o ts \o <<tBC>>
\* `(X)` as parse_value would build it if it kept the brackets: a Brackets node
BracketsOf(v) == new_not_or_bracket("Brackets", v)

\* C12: for a valid expression X, `(X)` parses to the tree of X, as the argument of
\* print and as a statement, and a Brackets node over that tree evaluates, from every
\* frame stack, to the same Data or error and the same frame stack as the tree.
C12_GroupingIdentity ==
  parsed # <<>> =>
    /\ (IsPrintOf(input_tokens) /\ parse_value(PrintArgument(input_tokens)).err = NoParserError)
         => LET X == PrintArgument(input_tokens)
                v == parse_value(X).value
            IN /\ parsed[1] = ParseOk(<<Instruction_Print(v)>>)
               /\ parse(<<tKw("Print"), tBO>> \o Bracketed(X) \o <<tBC, tEnd>>) = parsed[1]
               /\ \A st \in FrameStacks :
                    evaluate_value(BracketsOf(v), st) = evaluate_value(v, st)
    /\ (IsStatementOf(input_tokens) /\ parsed[1].err = NoParserError
          /\ parse_value(StatementBody(input_tokens)).err = NoParserError)
         => LET X == StatementBody(input_tokens)
                v == parse_value(X).value
            IN /\ parsed[1] = ParseOk(<<Instruction_Value(v)>>)
               /\ parse(Bracketed(X) \o <<tEnd>>) = parsed[1]
               /\ \A st \in FrameStacks :
                    evaluate_value(BracketsOf(v), st) = evaluate_value(v, st)

\* C12 witness: `print((a = 2) * (3 + a));` has parsed, and its argument assigns a
C12_Witness ==
  /\ parsed # <<>>
  /\ input_tokens = WrittenStreams[6]
  /\ parsed[1].err = NoParserError
  /\ evaluate_value(BracketsOf(parsed[1].instructions[1].value), <<StackFrame_empty>>).stack
       = <<Insert(StackFrame_empty, "a", Integer(2))>>

\* the Value being evaluated is a plain or compound assignment
IsAssignment(v) == v.t = "Expression" /\ v.operator \in Compound \cup {"Assign"}

\* C13: evaluating `t = r` or `t op= r` whose left operand t is not an Identifier
\* returns TypeMismatch("Expected identifier on left side of assignment") and leaves
\* the frame stack as it was, whatever r would have done or failed with.
C13_LeftMustBeIdentifier ==
  [][(/\ input_value # <<>>
      /\ evaluated = <<>>
      /\ IsAssignment(input_value[1])
      /\ get_left(input_value[1]).t # "Identifier")
       => /\ evaluated' = <<NoData>>
          /\ error' = TypeMismatch("Expected identifier on left side of assignment")
          /\ stack' = stack]_vars

\* C13 witness: `1 += (a = 5)` has been evaluated from a stack binding a to 7, which
\* still binds a to 7
C13_Witness ==
  /\ evaluated # <<>>
  /\ input_value = <<Bin(Num(1), "AddAssign", Bin(Id("a"), "Assign", Num(5)))>>
  /\ error.kind = "TypeMismatch"
  /\ stack = <<Insert(StackFrame_empty, "a", Integer(7))>>

\* `n = n op r` for the compound assignment `n op= r`
Desugared(v) ==
  Bin(get_left(v), "Assign", Bin(get_left(v), CompoundOperator(v.operator), get_right(v)[1]))

\* C14: evaluating `n op= r` (op one of + - * / %) gives the Data, the error and the
\* frame stack that evaluating `n = n op r` gives from the same frame stack; when no
\* frame binds n it returns VariableNotDefined(n) and the frame stack is unchanged.
C14_CompoundIsDesugared ==
  [][(/\ input_value # <<>>
      /\ evaluated = <<>>
      /\ input_value[1].t = "Expression"
      /\ input_value[1].operator \in Compound
      /\ get_left(input_value[1]).t = "Identifier")
       => /\ Res(stack', evaluated'[1], error') = evaluate_value(Desugared(input_value[1]), stack)
          /\ ~Bound(stack, get_left(input_value[1]).name)
               => /\ error' = VariableNotDefined(get_left(input_value[1]).name)
                  /\ evaluated' = <<NoData>>
                  /\ stack' = stack]_vars

\* C14 witness: `a += (a = 5)` has been evaluated from a stack binding a to 7; it read
\* a before the right operand assigned it, and a is 12
C14_Witness ==
  /\ evaluated = <<Integer(12)>>
  /\ input_value = <<Bin(Id("a"), "AddAssign", Bin(Id("a"), "Assign", Num(5)))>>
  /\ error = NoError
  /\ get_variable(stack, "a") # <<>>
  /\ get_variable(stack, "a")[1].data = Integer(12)

\* the Data of an operand of ClosedExprs, which reads and assigns no variable
OperandData(v) == evaluate_value(v, <<StackFrame_empty>>).data
\* `l op r` has been evaluated, op is arithmetic and both operands are Numbers
ArithmeticOnNumbers ==
  /\ evaluated # <<>>
  /\ input_value[1] \in ClosedExprs
  /\ input_value[1].operator \in Arithmetic
  /\ IsNumber(OperandData(get_left(input_value[1])))
  /\ IsNumber(OperandData(get_right(input_value[1])[1]))

\* C15: when an arithmetic operator on two Numbers returns a Data, it is a Number; for
\* Add, Subtract, Multiply, Divide and Modulo it is an Integer exactly when both
\* operands are Integers, and for Exponent it is a Float whatever the operands are.
\* `2 + 3` is Integer 5, `2 + 3.0` is Float 5 and `2 ^ 3` is Float 8.
C15_IntegerKindKept ==
  /\ (ArithmeticOnNumbers /\ error = NoError) =>
       LET l == OperandData(get_left(input_value[1]))
           r == OperandData(get_right(input_value[1])[1])
       IN /\ IsNumber(evaluated[1])
          /\ input_value[1].operator # "Exponent"
               => (evaluated[1].kind = "Integer" <=> (l.kind = "Integer" /\ r.kind = "Integer"))
          /\ input_value[1].operator = "Exponent" => evaluated[1].kind = "Float"
  /\ (evaluated # <<>> /\ input_value = <<Bin(Num(2), "Add", Num(3))>>)
       => evaluated = <<Integer(5)>> /\ error = NoError
  /\ (evaluated # <<>> /\ input_value = <<Bin(Num(2), "Add", VNumber(Float(3, 1)))>>)
       => evaluated = <<Float(5, 1)>> /\ error = NoError
  /\ (evaluated # <<>> /\ input_value = <<Bin(Num(2), "Exponent", Num(3))>>)
       => evaluated = <<Float(8, 1)>> /\ error = NoError

\* C15 witness: `2 ^ 3` has been evaluated, to a Float
C15_Witness ==
  /\ ArithmeticOnNumbers
  /\ input_value = <<Bin(Num(2), "Exponent", Num(3))>>
  /\ error = NoError
  /\ evaluated[1].kind = "Float"

\* `a / b` or `a % b` on two Integer literals with b # 0 has been evaluated
IntegerDivision(operator) ==
  /\ evaluated # <<>>
  /\ input_value[1].t = "Expression"
  /\ input_value[1].operator = operator
  /\ get_left(input_value[1]) \in {Num(a) : a \in i64_MIN..i64_MAX}
  /\ get_right(input_value[1])[1] \in {Num(b) : b \in Divisors \ {0}}

\* C16: for Integers a and b with b # 0, `a / b` returns the Integer q and `a % b` the
\* Integer r with a = q * b + r, |r| < |b| and r zero or of the sign of a.
C16_TruncatingDivision ==
  /\ IntegerDivision("Divide") =>
       LET a == get_left(input_value[1]).lit.num
           b == get_right(input_value[1])[1].lit.num
           q == evaluated[1].num
       IN /\ error = NoError
          /\ evaluated[1].kind = "Integer"
          /\ Abs(a - q * b) < Abs(b)
          /\ a - q * b = 0 \/ Sign(a - q * b) = Sign(a)
  /\ IntegerDivision("Modulo") =>
       LET a == get_left(input_value[1]).lit.num
           b == get_right(input_value[1])[1].lit.num
           r == evaluated[1].num
       IN /\ error = NoError
          /\ evaluated[1].kind = "Integer"
          /\ (a - r) % Abs(b) = 0
          /\ Abs(r) < Abs(b)
          /\ r = 0 \/ Sign(r) = Sign(a)
  /\ (evaluated # <<>> /\ input_value = <<Bin(Num(-7), "Divide", Num(2))>>)
       => evaluated = <<Integer(-3)>>
  /\ (evaluated # <<>> /\ input_value = <<Bin(Num(-7), "Modulo", Num(2))>>)
       => evaluated = <<Integer(-1)>>

\* the panic messages of i64 `/` and `%` with a zero divisor
DivisionByZeroMessages ==
  {"attempt to divide by zero", "attempt to calculate the remainder with a divisor of zero"}
\* the written programs that get to an Integer division or remainder by zero first
DividesByZero ==
  {k \in 1..Len(Written) :
     Written[k][1] \in
       { Instruction_Print(Bin(Num(7), "Divide", Num(0))),
         Instruction_If(True, <<Instruction_Print(Bin(Num(7), "Modulo", Num(0)))>>),
         Set("a", Num(0)),
         Set("a", Num(5)) }}

\* C17: Divide and Modulo on an Integer and Integer 0 panic and return no Data; a step
\* whose evaluation panics ends the run ("aborted") with nothing printed by it and no
\* call returning, no step follows it, and interpret never returns a panic as its
\* error.  The programs of DividesByZero neither return nor propagate an error nor
\* print.
C17_DivisionByZeroIsFatal ==
  [][/\ \A a \in i64_MIN..i64_MAX : \A operator \in {"Divide", "Modulo"} :
          /\ Apply(operator, Integer(a), Integer(0)).err.kind = "Panic"
          /\ Apply(operator, Integer(a), Integer(0)).err.msg \in DivisionByZeroMessages
          /\ Apply(operator, Integer(a), Integer(0)).data = NoData
     /\ status # "aborted"
     /\ error'.kind = "Panic" => (status' = "aborted" /\ out' = out /\ calls' = calls)
     /\ status' = "returned" => error'.kind # "Panic"
     /\ prog.written \in DividesByZero
          => (status' \notin {"unwinding", "returned"} /\ out' = <<>>)]_vars

\* C17 witness: `a = 5; if (true) { if ((a %= 0) == 0) { print("no"); } } print(a);`
\* has stopped in the inner condition, two blocks deep, a still 5
C17_Witness ==
  /\ status = "aborted"
  /\ error = Panic("attempt to calculate the remainder with a divisor of zero")
  /\ Len(calls) = 2
  /\ out = <<>>
  /\ get_variable(stack, "a") # <<>>
  /\ get_variable(stack, "a")[1].data = Integer(5)

\* l and r are of one kind and the same value; an Integer and a Float are both Numbers
\* and are compared as the rationals they denote, infinities by sign, NaN equal to
\* nothing
SameValue(l, r) ==
  IF IsNumber(l) /\ IsNumber(r)
    THEN IF l.den = 0 \/ r.den = 0 THEN l.den = r.den /\ l.num = r.num /\ l.num # 0
         ELSE l.num * r.den = r.num * l.den
  ELSE IF l.kind = "String" /\ r.kind = "String" THEN l.s = r.s
  ELSE IF l.kind = "Boolean" /\ r.kind = "Boolean" THEN l.b = r.b
  ELSE FALSE
\* `l == r` or `l != r` over two operands that evaluate without error has been evaluated
EqualityEvaluated ==
  /\ evaluated # <<>>
  /\ input_value[1] \in ClosedExprs
  /\ input_value[1].operator \in {"Equal", "NotEqual"}

\* C18: Equal and NotEqual return a Boolean for every pair of operand Data and never
\* an error; Equal is true exactly when the operands are of one kind and the same
\* value (Integer and Float compared as numbers), NotEqual is its negation; operands
\* of different kinds give false and true (`1 == "1"`, `1 != "1"`).
C18_EqualityNeverFails ==
  EqualityEvaluated =>
    LET l == OperandData(get_left(input_value[1]))
        r == OperandData(get_right(input_value[1])[1])
        equal == evaluate_value(Bin(get_left(input_value[1]), "Equal", get_right(input_value[1])[1]),
                                <<StackFrame_empty>>)
    IN /\ error = NoError
       /\ evaluated[1].kind = "Boolean"
       /\ input_value[1].operator = "Equal" => evaluated[1].b = SameValue(l, r)
       /\ input_value[1].operator = "NotEqual" =>
            /\ evaluated[1].b = ~SameValue(l, r)
            /\ equal.err = NoError /\ evaluated[1].b = ~equal.data.b
       /\ input_value[1] = Bin(Num(1), "Equal", Str(<<"1">>)) => evaluated = <<Boolean(FALSE)>>
       /\ input_value[1] = Bin(Num(1), "NotEqual", Str(<<"1">>)) => evaluated = <<Boolean(TRUE)>>

\* C18 witness: `3 == 3.0` has been evaluated, to true
C18_Witness ==
  /\ EqualityEvaluated
  /\ input_value = <<Bin(Num(3), "Equal", VNumber(Float(3, 1)))>>
  /\ evaluated = <<Boolean(TRUE)>>

\* the operand kinds the arm of v's operator matches
Accepted(v) ==
  LET l == OperandData(get_left(v)).kind
      r == IF get_right(v) = <<>> THEN "None" ELSE OperandData(get_right(v)[1]).kind
      Numbers == {"Integer", "Float"}
  IN CASE v.operator = "Add" -> (l \in Numbers /\ r \in Numbers) \/ (l = "String" /\ r = "String")
       [] v.operator \in {"Subtract", "Multiply", "Divide", "Modulo", "Exponent"} \cup Ordering ->
            l \in Numbers /\ r \in Numbers
       [] v.operator \in {"And", "Or"} -> l = "Boolean" /\ r = "Boolean"
       [] v.operator = "Not" -> l = "Boolean"
\* the i64 operation of v panics: a zero divisor, i64::MIN / -1, or an overflow in a
\* build with overflow checks
ArithmeticFault(v) ==
  LET l == OperandData(get_left(v))
      r == OperandData(get_right(v)[1])
  IN /\ v.operator \in {"Add", "Subtract", "Multiply", "Divide", "Modulo"}
     /\ l.kind = "Integer" /\ r.kind = "Integer"
     /\ CASE v.operator \in {"Divide", "Modulo"} -> r.num = 0 \/ (l.num = i64_MIN /\ r.num = -1)
          [] v.operator = "Add" -> overflow_checks /\ ~InI64(l.num + r.num)
          [] v.operator = "Subtract" -> overflow_checks /\ ~InI64(l.num - r.num)
          [] v.operator = "Multiply" -> overflow_checks /\ ~InI64(l.num * r.num)
\* an operator other than Equal and NotEqual has been evaluated on operands that
\* evaluate without error
KindChecked ==
  /\ evaluated # <<>>
  /\ input_value[1] \in ClosedExprs
  /\ input_value[1].operator \notin {"Equal", "NotEqual"}

\* C19 as stated: each operator succeeds, with a Data, exactly on the operand kinds
\* it accepts, and every other combination yields TypeMismatch and no Data.
C19_KindsDecideSuccess ==
  KindChecked =>
    /\ error = NoError <=> Accepted(input_value[1])
    /\ ~Accepted(input_value[1]) => (error.kind = "TypeMismatch" /\ evaluated = <<NoData>>)

\* C19, amended: each operator yields TypeMismatch, and no Data, exactly on the operand
\* kinds it does not accept; on the kinds it accepts it yields a Data and no error,
\* unless its i64 operation panics (a zero divisor, i64::MIN / -1, an overflow in a
\* build with overflow checks).
C19_KindsDecideTypeMismatch ==
  KindChecked =>
    /\ error.kind = "TypeMismatch" <=> ~Accepted(input_value[1])
    /\ ~Accepted(input_value[1]) => evaluated = <<NoData>>
    /\ Accepted(input_value[1]) =>
         IF ArithmeticFault(input_value[1])
           THEN error.kind = "Panic" /\ evaluated = <<NoData>>
         ELSE error = NoError /\ evaluated[1] # NoData

\* C19 witness: `true + true` has been evaluated, to a TypeMismatch
C19_Witness ==
  /\ KindChecked
  /\ input_value = <<Bin(True, "Add", True)>>
  /\ error = TypeMismatch("Expected 2 strings or 2 numbers when adding")
  /\ evaluated = <<NoData>>

\* the nesting depth after ts[1..i] of a span opened just before ts
Depth(ts, i, open, close) ==
  1 + Cardinality({j \in 1..i : ts[j].t = open}) - Cardinality({j \in 1..i : ts[j].t = close})
\* the position in ts of the token that closes the span, 0 if ts ends with it open
Closing(ts, open, close) ==
  LET closed == {i \in 1..Len(ts) : Depth(ts, i, open, close) = 0}
  IN IF closed = {} THEN 0 ELSE MinOf(closed)
\* ts from position k on
From(ts, k) == SubSeq(ts, k, Len(ts))

\* C20: on every suffix of the parsed stream, parse_already_open_brackets returns the
\* tokens up to the BracketClose that brings the depth back to 0 (nested pairs inside)
\* and leaves the stream after it, and parse_already_open_scope parses the tokens up to
\* the matching ScopeClose; both return UnexpectedEnd if the stream ends first.  A
\* stream `print(`, `if (`, `while (` whose bracket span never closes, and an if or
\* while whose block never closes, make parse return UnexpectedEnd with no instructions.
C20_SpansByDepth ==
  parsed # <<>> =>
    /\ \A k \in 1..(Len(input_tokens) + 1) :
         LET ts == From(input_tokens, k)
             b == Closing(ts, "BracketOpen", "BracketClose")
             s == Closing(ts, "ScopeOpen", "ScopeClose")
         IN /\ parse_already_open_brackets(ts) =
                 IF b = 0 THEN [tokens |-> <<>>, rest |-> <<>>, err |-> UnexpectedEnd]
                 ELSE [tokens |-> SubSeq(ts, 1, b - 1), rest |-> From(ts, b + 1),
                       err |-> NoParserError]
            /\ parse_already_open_scope(ts) =
                 IF s = 0 THEN [instructions |-> <<>>, rest |-> <<>>, err |-> UnexpectedEnd]
                 ELSE [instructions |-> parse(SubSeq(ts, 1, s - 1)).instructions,
                       rest |-> From(ts, s + 1),
                       err |-> parse(SubSeq(ts, 1, s - 1)).err]
    /\ (/\ Len(input_tokens) >= 2
        /\ input_tokens[1] \in {tKw("Print"), tKw("If"), tKw("While")}
        /\ input_tokens[2] = tBO)
         => LET ts == From(input_tokens, 3)
                b == Closing(ts, "BracketOpen", "BracketClose")
                after == From(ts, b + 1)
            IN /\ b = 0 => parsed[1] = ParseErr(UnexpectedEnd)
               /\ (/\ b > 0
                   /\ input_tokens[1] # tKw("Print")
                   /\ parse_value(SubSeq(ts, 1, b - 1)).err = NoParserError
                   /\ after # <<>>
                   /\ after[1] = tSO
                   /\ Closing(Tail(after), "ScopeOpen", "ScopeClose") = 0)
                    => parsed[1] = ParseErr(UnexpectedEnd)

\* C20 witness: `if (true) { if (true) { print(1); }` has been parsed: the ScopeClose
\* closes the inner block, the outer one is open at the end of the stream
C20_Witness ==
  /\ parsed = <<ParseErr(UnexpectedEnd)>>
  /\ input_tokens = WrittenStreams[11]
  /\ Depth(From(input_tokens, 6), Len(From(input_tokens, 6)), "ScopeOpen", "ScopeClose") = 1
  /\ Closing(From(input_tokens, 11), "ScopeOpen", "ScopeClose") = 6

\* ts with its Comment tokens removed
WithoutComments(ts) == SelectSeq(ts, LAMBDA token : token.t # "Comment")

\* C21: parse returns for a token stream what it returns for the stream without its
\* Comment tokens, wherever they stand.
C21_CommentsDiscarded ==
  parsed # <<>> => parsed[1] = parse(WithoutComments(input_tokens))

\* the Expression that assign_variable_with_operator builds for the compound
\* assignment v
DesugaredExpression(v) == new(CompoundOperator(v.operator), get_left(v), get_right(v)[1])
\* the Expression nodes of v, and those built for its compound assignments
ExpressionNodes(v) ==
  LET nodes == {n \in SubValues(v) : n.t = "Expression"}
  IN nodes \cup {DesugaredExpression(n) : n \in {c \in nodes : c.operator \in Compound}}
\* the Values of the parsed instructions
ParsedValues == IF parsed = <<>> THEN {} ELSE ValuesOf(parsed[1].instructions)
NoRightMessages == {"No right for operator", "No right for assignment"}

\* C22: in every tree parse returns, each Expression node, and each Expression that the
\* desugaring of a compound assignment in it builds, has no right operand exactly
\* when its operator is Not or Brackets; evaluating the tree from any frame stack
\* never fails for a missing right operand.
C22_RightIffBinary ==
  \A v \in ParsedValues :
    /\ \A n \in ExpressionNodes(v) : (get_right(n) = <<>>) <=> (n.operator \in {"Not", "Brackets"})
    /\ \A st \in FrameStacks : evaluate_value(v, st).err.msg \notin NoRightMessages

\* C22 witness: `while (a < 2) { a += 1; if (a == 1) { break; } }` has parsed; its
\* body holds the compound assignment `a += 1`
C22_Witness ==
  /\ parsed # <<>>
  /\ input_tokens = WrittenStreams[8]
  /\ Bin(Id("a"), "AddAssign", Num(1)) \in ParsedValues
  /\ get_right(DesugaredExpression(Bin(Id("a"), "AddAssign", Num(1)))) = <<Num(1)>>

\* C23: while the program runs and no error has occurred, the frame stack holds one
\* frame per block being executed: the top-level list and each entered block that has
\* not exited, which is one more than the number of blocks enclosing the list being
\* run; before interpret and after it has returned Ok the stack is empty.
C23_StackIsNestingDepth ==
  /\ (status = "running" /\ error = NoError)
       => /\ Len(stack) = Len(calls)
          /\ Len(stack) = Len(Cur.path) + 1
          /\ \A i \in 1..Len(calls) : Len(calls[i].path) = i - 1
  /\ (status \in {"new", "returned"} /\ error = NoError) => stack = <<>>

\* C23 witness: `a = 1; if (true) { if (true) { a = 2; b = 4; print(a); } print(a);
\* b = 5; } print(a);` is back at top level, both blocks entered and left
C23_Witness ==
  /\ status = "running"
  /\ error = NoError
  /\ Program = Written[24]
  /\ Len(out) = 2
  /\ Len(calls) = 1
  /\ Cur.pc = 3
  /\ Len(stack) = 1

\* the position, in the caller's list, of the instruction whose block the innermost
\* call runs
Entered == Cur.path[Len(Cur.path)]
\* Break leaves the rest of its list unrun, raises nothing and touches no frame
BreakSkipsRest ==
  At("Break") =>
    /\ Len(calls') = Len(calls)
    /\ SubSeq(calls', 1, Top - 1) = SubSeq(calls, 1, Top - 1)
    /\ calls'[Top].path = Cur.path
    /\ calls'[Top].pc > Len(List(Cur))
    /\ status' = "running" /\ error' = NoError /\ out' = out /\ stack' = stack
\* the list a Break has left returns Ok: its frame is popped
BrokenListReturns ==
  (InRun /\ Cur.broke) =>
    /\ stack' = Tail(stack)
    /\ calls' = SubSeq(calls, 1, Top - 1)
    /\ error' = NoError /\ out' = out
    /\ status' = IF Top = 1 THEN "returned" ELSE "running"
\* `i = 0; while (i < MaxLoop) { i += 1; if (true) { break; print("x"); } print(i); }`
\* prints 1 .. MaxLoop
BreakInIfInWhile ==
  (Program = Written[7] /\ status' = "returned")
    => out' = [k \in 1..MaxLoop |-> i64_to_string(k)]

IsGroup(ts) ==
  /\ Len(ts) >= 3
  /\ ts[1] = tBO
  /\ Closing(Tail(ts), "BracketOpen", "BracketClose") = Len(ts) - 1
GroupBody(ts) == SubSeq(ts, 2, Len(ts) - 1)

\* C25: `print(!true);` parses to a print of Expression(Not, true), and `print(( X ));`
\* for a valid X to a print of Expression(Brackets, parse_value(X)).
C25_UnaryExpressionsBuilt ==
  parsed # <<>> =>
    /\ input_tokens = WrittenStreams[21] => parsed[1] = ParseOk(<<Instruction_Print(Not(True))>>)
    /\ (/\ IsPrintOf(input_tokens)
        /\ IsGroup(PrintArgument(input_tokens))
        /\ parse_value(GroupBody(PrintArgument(input_tokens))).err = NoParserError)
         => parsed[1] = ParseOk(<<Instruction_Print(
                          BracketsOf(parse_value(GroupBody(PrintArgument(input_tokens))).value))>>)

\* the Data a write of name may store
WrittenData == {Integer(0), String(<<"s">>), Boolean(TRUE)}

\* C26: in every state no name is bound in two frames of the stack; a read finds the
\* same binding whether the frames are scanned from the last index down, as
\* get_variable does, or from index 0 up, and a write of a bound name changes that one
\* frame and binds the name nowhere else.
C26_OneBindingPerName ==
  \A n \in Names :
    LET hits == Binders(stack, n)
    IN /\ Cardinality(hits) <= 1
       /\ hits # {} =>
            /\ get_variable(stack, n) = <<[data |-> stack[MinOf(hits)][n], i |-> MinOf(hits)]>>
            /\ \A d \in WrittenData :
                 LET after == VM_assign_variable(stack, n, d).stack
                 IN /\ Binders(after, n) = hits
                    /\ after[MinOf(hits)][n] = d
                    /\ \A i \in 1..Len(stack) : i \notin hits => after[i] = stack[i]

\* C26 witness: in Written[24] the innermost of three frames has bound b, and a, bound
\* by the top-level list, has been assigned from it
C26_Witness ==
  /\ status = "running"
  /\ Program = Written[24]
  /\ Len(stack) = 3
  /\ Binders(stack, "a") = {3}
  /\ stack[3]["a"] = Integer(2)
  /\ Binders(stack, "b") = {1}

\* the instructions of a list and of every block inside it
RECURSIVE AllInstructions(_)
AllInstructions(instructions) ==
  UNION {{instructions[i]} \cup AllInstructions(instructions[i].instructions)
           : i \in 1..Len(instructions)}

\* the tokens that start no statement
BlockTokens == {"ScopeOpen", "ScopeClose", "BracketClose"}

\* the positions of the stream at which the loop of parse takes the token that starts a
\* statement: the first one, and the one after an EndStatement or a ScopeClose that ends
\* a stream parse accepts
StatementStarts(ts) ==
  {k \in 1..Len(ts) :
     \/ k = 1
     \/ /\ ts[k - 1].t \in {"EndStatement", "ScopeClose"}
        /\ parse(SubSeq(ts, 1, k - 1)).err = NoParserError}

\* C27: no instruction parse returns, at any depth, is a Scope, and only If, Else and
\* While carry a block; a stream with a statement that starts with ScopeOpen, ScopeClose
\* or BracketClose is refused with UnexpectedToken of that token; inside the block of an
\* If a stream that starts with ScopeOpen or BracketClose is refused the same way,
\* unless the block is not closed.
C27_NoBareBlock ==
  parsed # <<>> =>
    /\ \A instruction \in AllInstructions(parsed[1].instructions) :
         /\ instruction.op # "Scope"
         /\ instruction.instructions # <<>> => instruction.op \in {"If", "Else", "While"}
    /\ \A k \in StatementStarts(input_tokens) :
         input_tokens[k].t \in BlockTokens => parsed[1] = ParseErr(UnexpectedToken(input_tokens[k]))
    /\ (input_tokens # <<>> /\ input_tokens[1].t \in {"ScopeOpen", "BracketClose"}) =>
         parse(<<tKw("If"), tBO, Token_Boolean(TRUE), tBC, tSO>> \o input_tokens \o <<tSC>>).err
           \in {UnexpectedToken(input_tokens[1]), UnexpectedEnd}

\* C27 witness: `print(1); { print(2); }` has been refused at its ScopeOpen
C27_Witness ==
  /\ input_tokens = WrittenStreams[32]
  /\ 6 \in StatementStarts(input_tokens)
  /\ parsed = <<ParseErr(UnexpectedToken(Token_ScopeOpen))>>

----------------------------------------------------------------------------
(* tokenizer::tokenize.  The input is the sequence of the chars of the     *)
(* text; a Result is the Vec<Token> with no error, or the error: the       *)
(* TokenizerError of Err, or the panic of `unwrap` and `panic!`.           *)

UnknownOperator(operator) == [kind |-> "UnknownOperator", msg |-> operator]
NoTokenizerError == [kind |-> "None", msg |-> ""]
TokenizeOk(ts) == [tokens |-> ts, err |-> NoTokenizerError]
TokenizeErr(err) == [tokens |-> <<>>, err |-> err]

\* the char patterns of the arms of the match
Whitespace == {" ", "\t", "\r", "\n"}
DigitChars == {Digits[i] : i \in 1..10}
Letters ==
  {"a", "b", "c", "d", "e", "f", "g", "h", "i", "j", "k", "l", "m", "n", "o", "p", "q", "r",
   "s", "t", "u", "v", "w", "x", "y", "z",
   "A", "B", "C", "D", "E", "F", "G", "H", "I", "J", "K", "L", "M", "N", "O", "P", "Q", "R",
   "S", "T", "U", "V", "W", "X", "Y", "Z"}
OperatorChars == {"+", "-", "*", "/", "%", "=", "!", "<", ">", "^"}

\* how many chars a `while let Some(pattern) = chars.peek()` loop takes
RECURSIVE Leading(_, _)
Leading(chars, pattern) ==
  IF chars = <<>> \/ Head(chars) \notin pattern THEN 0
  ELSE 1 + Leading(Tail(chars), pattern)

\* how many chars come before the first c (all of them when there is none)
RECURSIVE Before(_, _)
Before(chars, c) ==
  IF chars = <<>> \/ Head(chars) = c THEN 0 ELSE 1 + Before(Tail(chars), c)

\* the String of a sequence of chars
RECURSIVE as_str(_)
as_str(chars) == IF chars = <<>> THEN "" ELSE Head(chars) \o as_str(Tail(chars))

\* str::replace(c, "")
Without(chars, c) == SelectSeq(chars, LAMBDA x : x # c)

\* the value of a sequence of digits
RECURSIVE DigitsValue(_)
DigitsValue(digits) ==
  IF digits = <<>> THEN 0
  ELSE 10 * DigitsValue(SubSeq(digits, 1, Len(digits) - 1))
         + ((CHOOSE d \in 1..10 : Digits[d] = digits[Len(digits)]) - 1)

RECURSIVE Pow10(_)
Pow10(n) == IF n = 0 THEN 1 ELSE 10 * Pow10(n - 1)

\* number.parse().unwrap() of the '0'..='9' arm: the Number, or <<>> when parse is Err
parse_number(number) ==
  LET dot == Before(number, ".")
      fraction == SubSeq(number, dot + 2, Len(number))
  IN IF dot = Len(number)
       THEN IF DigitsValue(number) <= i64_MAX THEN <<Integer(DigitsValue(number))>> ELSE <<>>
     ELSE IF Before(fraction, ".") < Len(fraction) THEN <<>>
     ELSE <<Float(DigitsValue(SubSeq(number, 1, dot) \o fraction), Pow10(Len(fraction)))>>

\* the match on identifier.as_str()
word(identifier) ==
  CASE identifier = "if" -> Token_Keyword("If")
    [] identifier = "else" -> Token_Keyword("Else")
    [] identifier = "while" -> Token_Keyword("While")
    [] identifier = "print" -> Token_Keyword("Print")
    [] identifier = "input" -> Token_Keyword("Input")
    [] identifier = "break" -> Token_Keyword("Break")
    [] identifier = "true" -> Token_Boolean(TRUE)
    [] identifier = "false" -> Token_Boolean(FALSE)
    [] OTHER -> Token_Identifier(identifier)

\* the match on operator.as_str() for a first char of the operator arm followed by
\* `=` chars: the Operator, or "" for Err(UnknownOperator)
match_operator(operator) ==
  CASE operator = "+" -> "Add"
    [] operator = "-" -> "Subtract"
    [] operator = "*" -> "Multiply"
    [] operator = "/" -> "Divide"
    [] operator = "%" -> "Modulo"
    [] operator = "^" -> "Exponent"
    [] operator = "==" -> "Equal"
    [] operator = "!=" -> "NotEqual"
    [] operator = "<" -> "LessThan"
    [] operator = ">" -> "GreaterThan"
    [] operator = "<=" -> "LessThanOrEqual"
    [] operator = ">=" -> "GreaterThanOrEqual"
    [] operator = "&&" -> "And"
    [] operator = "||" -> "Or"
    [] operator = "!" -> "Not"
    [] operator = "=" -> "Assign"
    [] operator = "+=" -> "AddAssign"
    [] operator = "-=" -> "SubtractAssign"
    [] operator = "*=" -> "MultiplyAssign"
    [] operator = "/=" -> "DivideAssign"
    [] operator = "%=" -> "ModuloAssign"
    [] OTHER -> ""

\* a variant of the '&' | '|' arm that pushes Operator::And or Operator::Or for a
\* doubled char
ampersand_or_pipe_pushes(c, chars) ==
  IF chars # <<>> /\ Head(chars) = c
    THEN [pushed |-> <<Token_Operator(match_operator(c \o c))>>, rest |-> Tail(chars)]
  ELSE [pushed |-> <<>>, rest |-> chars]

\* the '&' | '|' arm: c has been taken; the tokens it pushes and the chars it leaves
ampersand_or_pipe(c, chars) ==
  IF chars # <<>> /\ Head(chars) = c
    THEN [pushed |-> <<>>, rest |-> Tail(chars)]
  ELSE [pushed |-> <<>>, rest |-> chars]

\* the `while let Some(c) = chars.next()` loop of tokenize
RECURSIVE tokenize_loop(_, _)
tokenize_loop(chars, ts) ==
  IF chars = <<>> THEN TokenizeOk(ts)
  ELSE
    LET c == Head(chars)
        rest == Tail(chars)
        After(n) == SubSeq(rest, n + 1, Len(rest))
    IN CASE c \in Whitespace -> tokenize_loop(rest, ts)
         [] c = ";" -> tokenize_loop(rest, Append(ts, Token_EndStatement))
         [] c \in DigitChars ->
              LET n == Leading(rest, DigitChars \cup {".", ",", "_"})
                  number == parse_number(Without(Without(<<c>> \o SubSeq(rest, 1, n), "_"), ","))
              IN IF number = <<>>
                   THEN TokenizeErr(Panic("called Result::unwrap() on an Err value"))
                 ELSE tokenize_loop(After(n), Append(ts, Token_Number(number[1])))
         [] c \in Letters \cup {"_"} ->
              LET n == Leading(rest, Letters \cup DigitChars \cup {"_"})
              IN tokenize_loop(After(n), Append(ts, word(as_str(<<c>> \o SubSeq(rest, 1, n)))))
         [] c \in OperatorChars ->
              LET n == Leading(rest, {"="})
                  operator == as_str(<<c>> \o SubSeq(rest, 1, n))
              IN IF match_operator(operator) = ""
                   THEN TokenizeErr(UnknownOperator(operator))
                 ELSE tokenize_loop(After(n), Append(ts, Token_Operator(match_operator(operator))))
         [] c \in {"&", "|"} ->
              LET arm == ampersand_or_pipe(c, rest)
              IN tokenize_loop(arm.rest, ts \o arm.pushed)
         [] c = "\"" ->
              LET n == Before(rest, "\"")
              IN tokenize_loop(After(n + 1), Append(ts, Token_String(SubSeq(rest, 1, n))))
         [] c = "#" ->
              LET n == Before(rest, "#")
              IN tokenize_loop(After(n + 1), Append(ts, Token_Comment(SubSeq(rest, 1, n))))
         [] c = "{" -> tokenize_loop(rest, Append(ts, Token_ScopeOpen))
         [] c = "}" -> tokenize_loop(rest, Append(ts, Token_ScopeClose))
         [] c = "(" -> tokenize_loop(rest, Append(ts, Token_BracketOpen))
         [] c = ")" -> tokenize_loop(rest, Append(ts, Token_BracketClose))
         [] OTHER -> TokenizeErr(Panic("Unexpected character"))

\* tokenize: Ok(tokens), Err(err), or the panic
tokenize(input) == tokenize_loop(input, <<>>)

\* the longest generated text
MaxChars == 4
\* the chars of the generated texts
Alphabet == {"a", "1", "&", "|", "=", " ", "\"", "#", "?"}
GeneratedTexts == UNION {[1..n -> Alphabet] : n \in 0..MaxChars}

WrittenTexts == <<
  \* a && b
  <<"a", " ", "&", "&", " ", "b">>,
  \* a b
  <<"a", " ", "b">>,
  \* a || b
  <<"a", " ", "|", "|", " ", "b">>,
  \* a&b
  <<"a", "&", "b">>,
  \* a & | b
  <<"a", " ", "&", " ", "|", " ", "b">>,
  \* &&&= 1
  <<"&", "&", "&", "=", " ", "1">>,
  \* if (a && b) { print("x & y"); }
  <<"i", "f", " ", "(", "a", " ", "&", "&", " ", "b", ")", " ", "{", " ", "p", "r", "i", "n", "t", "(", "\"", "x", " ", "&", " ", "y", "\"", ")", ";", " ", "}">>,
  \* x = 1.5; # a | b # while (x <= 2) { x += 1; }
  <<"x", " ", "=", " ", "1", ".", "5", ";", " ", "#", " ", "a", " ", "|", " ", "b", " ", "#", " ", "w", "h", "i", "l", "e", " ", "(", "x", " ", "<", "=", " ", "2", ")", " ", "{", " ", "x", " ", "+", "=", " ", "1", ";", " ", "}">>,
  \* c = !true != false || 1_0 > 2 ^ 3 % 4 / 5 * 6 - 7;
  <<"c", " ", "=", " ", "!", "t", "r", "u", "e", " ", "!", "=", " ", "f", "a", "l", "s", "e", " ", "|", "|", " ", "1", "_", "0", " ", ">", " ", "2", " ", "^", " ", "3", " ", "%", " ", "4", " ", "/", " ", "5", " ", "*", " ", "6", " ", "-", " ", "7", ";">>,
  \* else { input i; break; } a === 1
  <<"e", "l", "s", "e", " ", "{", " ", "i", "n", "p", "u", "t", " ", "i", ";", " ", "b", "r", "e", "a", "k", ";", " ", "}", " ", "a", " ", "=", "=", "=", " ", "1">>,
  \* 1.2.3
  <<"1", ".", "2", ".", "3">>,
  \* a ? b
  <<"a", " ", "?", " ", "b">>,
  \* "a|b
  <<"\"", "a", "|", "b">>,
  \* 100
  <<"1", "0", "0">>,
  \* A_1 -= 1, /= %= *= >= < ==
  <<"A", "_", "1", " ", "-", "=", " ", "1", ",", " ", "/", "=", " ", "%", "=", " ", "*", "=", " ", ">", "=", " ", "<", " ", "=", "=">>
>>

\* the texts tokenize is handed
Texts == {WrittenTexts[k] : k \in 1..Len(WrittenTexts)} \cup GeneratedTexts

TokenizeInit ==
  /\ input_text \in Texts
  /\ tokenized = <<>>
  /\ input_tokens = <<>>
  /\ parsed = <<>>
  /\ prog = NoProgram
  /\ stack = <<>>
  /\ calls = <<>>
  /\ out = <<>>
  /\ status = "new"
  /\ error = NoError
  /\ input_value = <<>>
  /\ evaluated = <<>>
  /\ overflow_checks \in BOOLEAN

\* tokenizer::tokenize(&code)
Tokenize ==
  /\ tokenized = <<>>
  /\ tokenized' = <<tokenize(input_text)>>
  /\ UNCHANGED <<prog, stack, calls, out, status, error, input_tokens, parsed, input_value,
                 evaluated, overflow_checks, input_text>>

TokenizeNext == Tokenize

TokenizeSpec == TokenizeInit /\ [][TokenizeNext]_vars

\* the text with a space for every `&` and `|` outside a string and a comment; mode
\* is "code", or the char that ends the string or comment being read
RECURSIVE Blanked(_, _)
Blanked(chars, mode) ==
  IF chars = <<>> THEN <<>>
  ELSE LET c == Head(chars)
       IN IF mode = "code"
            THEN IF c \in {"&", "|"} THEN <<" ">> \o Blanked(Tail(chars), "code")
                 ELSE <<c>> \o Blanked(Tail(chars), IF c \in {"\"", "#"} THEN c ELSE "code")
          ELSE <<c>> \o Blanked(Tail(chars), IF c = mode THEN "code" ELSE mode)

\* the tokens tokenize never pushes
NeverTokens == {Token_Operator("And"), Token_Operator("Or"), Token_Operator("Brackets")}

\* C28: tokenize returns for a text what it returns for the text with a space in place
\* of every `&` and `|` outside strings and comments (no token and no error for them);
\* a text of `&`, `|` and spaces gives Ok of no tokens; no token returned is Operator And,
\* Or or Brackets; `a && b` gives the tokens of `a b`, the identifiers a and b.
C28_AmpersandAndPipeDropped ==
  tokenized # <<>> =>
    /\ tokenized[1] = tokenize(Blanked(input_text, "code"))
    /\ (\A i \in 1..Len(input_text) : input_text[i] \in {"&", "|", " "}) =>
         tokenized[1] = TokenizeOk(<<>>)
    /\ \A i \in 1..Len(tokenized[1].tokens) : tokenized[1].tokens[i] \notin NeverTokens
    /\ input_text = WrittenTexts[1] =>
         /\ tokenized[1] = tokenize(WrittenTexts[2])
         /\ tokenized[1] = TokenizeOk(<<Token_Identifier("a"), Token_Identifier("b")>>)

\* C28 witness: tokenize has returned the two identifiers of `a && b`
C28_Witness ==
  /\ input_text = WrittenTexts[1]
  /\ input_text = <<"a", " ", "&", "&", " ", "b">>
  /\ tokenized = <<TokenizeOk(<<Token_Identifier("a"), Token_Identifier("b")>>)>>

====
